---------------------------- MODULE Spec2Model ----------------------------
(***************************************************************************)
(* Model of the design analyzers of AI-Design-Analyzer                     *)
(* (src/unnamed/part_002: AIDesignAnalyzer and AdvancedDesignAnalyzer).    *)
(*                                                                         *)
(* Numbers.  JavaScript numbers are doubles; TLC has 32-bit integers.      *)
(*  - a luminance in [0,1] is the integer luminance * LumScale;            *)
(*  - a contrast ratio is the fraction [num, den] of the two luminances    *)
(*    plus 0.05, compared by cross-multiplication;                         *)
(*  - a lightness in [0,100] is kept as lightness * 510, which is the      *)
(*    integer (max + min) * 100 over the byte channels;                    *)
(*  - a score is the record [nan, num, den]: NaN, or the fraction num/den; *)
(*  - a quadrant weight is kept in units of 1/WeightScale.                 *)
(* Math.random() returns one of RandSteps equidistant values in [0,1).     *)
(* Images.  An image file decodes to a flat or a two-column image, or not  *)
(* at all.                                                                 *)
(* Strings.  A hex colour "#rrggbb" is the sequence of its six digit       *)
(* characters (the leading "#" is the same in every colour and left out). *)
(* Equality of two hex colours is JavaScript's ===, which is case          *)
(* sensitive.                                                              *)
(***************************************************************************)
EXTENDS Integers, Sequences, FiniteSets, TLC

\* ------------------------------------------------------------------------
\* Arithmetic helpers
\* ------------------------------------------------------------------------

Abs(x) == IF x < 0 THEN -x ELSE x

Max2(a, b) == IF a >= b THEN a ELSE b

Min2(a, b) == IF a <= b THEN a ELSE b

Max3(a, b, c) == Max2(a, Max2(b, c))

Min3(a, b, c) == Min2(a, Min2(b, c))

\* ------------------------------------------------------------------------
\* Hex strings: rgbToHex, hexToRgb
\* ------------------------------------------------------------------------

HexLower == <<"0","1","2","3","4","5","6","7","8","9","a","b","c","d","e","f">>

HexUpper == <<"0","1","2","3","4","5","6","7","8","9","A","B","C","D","E","F">>

\* Number.toString(16): lower-case digits; padStart(2, '0').
ByteToHex(x) == <<HexLower[(x \div 16) + 1], HexLower[(x % 16) + 1]>>

\* rgbToHex(r, g, b)
rgbToHex(r, g, b) == ByteToHex(r) \o ByteToHex(g) \o ByteToHex(b)

\* value of each digit accepted by the case-insensitive pattern [a-f\d]
DigitTable ==
    [ch \in {HexLower[i] : i \in 1..16} \cup {HexUpper[i] : i \in 1..16} |->
        CHOOSE v \in 0..15 : HexLower[v + 1] = ch \/ HexUpper[v + 1] = ch]

DigitValue(ch) == DigitTable[ch]

\* parseInt(two digits, 16)
ParseByte(hex, i) == DigitValue(hex[i]) * 16 + DigitValue(hex[i + 1])

\* hexToRgb(hex)
hexToRgb(hex) == <<ParseByte(hex, 1), ParseByte(hex, 3), ParseByte(hex, 5)>>

\* ------------------------------------------------------------------------
\* Luminance, lightness, contrast
\* ------------------------------------------------------------------------

LumScale == 10000

\* c/255 <= 0.03928 ? c/12.92 : ((c+0.055)/1.055)^2.4, times LumScale,
\* for the byte values c = 0..255 (entry c + 1).
LinearChannel ==
<< 0, 3, 6, 9, 12, 15, 18, 21, 24, 27, 30, 33, 37, 40, 44, 48,
   52, 56, 60, 65, 70, 75, 80, 86, 91, 97, 103, 110, 116, 123, 130, 137,
   144, 152, 160, 168, 176, 185, 194, 203, 212, 222, 232, 242, 252, 262, 273, 284,
   296, 307, 319, 331, 343, 356, 369, 382, 395, 409, 423, 437, 452, 467, 482, 497,
   513, 529, 545, 561, 578, 595, 612, 630, 648, 666, 685, 704, 723, 742, 762, 782,
   802, 823, 844, 865, 887, 908, 931, 953, 976, 999, 1022, 1046, 1070, 1095, 1119, 1144,
   1170, 1195, 1221, 1248, 1274, 1301, 1329, 1356, 1384, 1413, 1441, 1470, 1500, 1529, 1559, 1590,
   1620, 1651, 1683, 1714, 1746, 1779, 1812, 1845, 1878, 1912, 1946, 1981, 2016, 2051, 2086, 2122,
   2159, 2195, 2232, 2270, 2307, 2346, 2384, 2423, 2462, 2502, 2542, 2582, 2623, 2664, 2705, 2747,
   2789, 2831, 2874, 2918, 2961, 3005, 3050, 3095, 3140, 3185, 3231, 3278, 3325, 3372, 3419, 3467,
   3515, 3564, 3613, 3663, 3712, 3763, 3813, 3864, 3916, 3968, 4020, 4072, 4125, 4179, 4233, 4287,
   4342, 4397, 4452, 4508, 4564, 4621, 4678, 4735, 4793, 4851, 4910, 4969, 5029, 5089, 5149, 5210,
   5271, 5333, 5395, 5457, 5520, 5583, 5647, 5711, 5776, 5841, 5906, 5972, 6038, 6105, 6172, 6240,
   6308, 6376, 6445, 6514, 6584, 6654, 6724, 6795, 6867, 6939, 7011, 7084, 7157, 7231, 7305, 7379,
   7454, 7529, 7605, 7682, 7758, 7835, 7913, 7991, 8070, 8148, 8228, 8308, 8388, 8469, 8550, 8632,
   8714, 8796, 8879, 8963, 9047, 9131, 9216, 9301, 9387, 9473, 9560, 9647, 9734, 9823, 9911, 10000 >>

getLuminance_unweighted(r, g, b) ==
    LinearChannel[r + 1] + LinearChannel[g + 1] + LinearChannel[b + 1]

\* getLuminance(r, g, b): 0.2126 R + 0.7152 G + 0.0722 B, times LumScale
getLuminance(r, g, b) ==
    (2126 * LinearChannel[r + 1] + 7152 * LinearChannel[g + 1]
        + 722 * LinearChannel[b + 1]) \div 10000

\* AIDesignAnalyzer.getLuminance(hex), AdvancedDesignAnalyzer.getLuminanceFromHex(hex)
getLuminanceFromHex(hex) ==
    LET rgb == hexToRgb(hex) IN getLuminance(rgb[1], rgb[2], rgb[3])

\* getLightness(hex) * 510
getLightness(hex) ==
    LET rgb == hexToRgb(hex)
    IN  (Max3(rgb[1], rgb[2], rgb[3]) + Min3(rgb[1], rgb[2], rgb[3])) * 100

\* lightness > t  (t on the 0..100 scale)
LightnessAbove(hex, t) == getLightness(hex) > t * 510

\* 0.05 * LumScale
ContrastOffset == LumScale \div 20

calculateContrastRatio_noMax(hex1, hex2) ==
    [num |-> getLuminanceFromHex(hex1) + ContrastOffset,
     den |-> getLuminanceFromHex(hex2) + ContrastOffset]

\* calculateContrastRatio(hex1, hex2) = (brightest + 0.05) / (darkest + 0.05)
calculateContrastRatio(hex1, hex2) ==
    LET lum1 == getLuminanceFromHex(hex1)
        lum2 == getLuminanceFromHex(hex2)
        brightest == Max2(lum1, lum2)
        darkest == Min2(lum1, lum2)
    IN  [num |-> brightest + ContrastOffset, den |-> darkest + ContrastOffset]

\* AdvancedDesignAnalyzer.calculateColorContrast(hex1, hex2)
calculateColorContrast(hex1, hex2) ==
    LET lum1 == getLuminanceFromHex(hex1)
        lum2 == getLuminanceFromHex(hex2)
        brightest == Max2(lum1, lum2)
        darkest == Min2(lum1, lum2)
    IN  [num |-> brightest + ContrastOffset, den |-> darkest + ContrastOffset]

\* comparisons of fractions with positive denominators
FracLess(p, q) == p.num * q.den < q.num * p.den

\* fraction p against the integer n
FracLessInt(p, n) == p.num < n * p.den

FracAtLeastInt(p, n) == p.num >= n * p.den

\* fraction p against the decimal tenths/10
FracAboveTenths(p, tenths) == p.num * 10 > tenths * p.den

\* ------------------------------------------------------------------------
\* Reference palette and quantization
\* ------------------------------------------------------------------------

webColors ==
<<
   <<"F","F","0","0","0","0">>, <<"0","0","F","F","0","0">>, <<"0","0","0","0","F","F">>,
   <<"F","F","F","F","0","0">>, <<"F","F","0","0","F","F">>, <<"0","0","F","F","F","F">>,
   <<"F","F","6","B","6","B">>, <<"4","E","C","D","C","4">>, <<"4","5","B","7","D","1">>,
   <<"9","6","C","E","B","4">>, <<"F","F","E","A","A","7">>, <<"D","D","A","0","D","D">>,
   <<"9","8","D","8","C","8">>, <<"F","7","D","C","6","F">>, <<"B","B","8","F","C","E">>,
   <<"8","5","C","1","E","9">>, <<"F","8","C","4","7","1">>, <<"8","2","E","0","A","A">>,
   <<"E","7","4","C","3","C">>, <<"3","4","9","8","D","B">>, <<"2","E","C","C","7","1">>,
   <<"F","3","9","C","1","2">>, <<"9","B","5","9","B","6">>, <<"1","A","B","C","9","C">>,
   <<"0","0","0","0","0","0">>, <<"F","F","F","F","F","F">>, <<"3","3","3","3","3","3">>,
   <<"6","6","6","6","6","6">>, <<"9","9","9","9","9","9">>, <<"C","C","C","C","C","C">>
>>

\* colorDistance(hex1, hex2) squared.  Math.sqrt is strictly increasing on
\* the integers 0..3*255^2, so comparing squares compares distances.
colorDistance(hex1, hex2) ==
    LET a == hexToRgb(hex1)
        b == hexToRgb(hex2)
    IN  (a[1] - b[1]) * (a[1] - b[1]) + (a[2] - b[2]) * (a[2] - b[2])
            + (a[3] - b[3]) * (a[3] - b[3])

\* the for-of loop of quantizeToWebColors from entry i on, with the running
\* closestColor and minDistance (-1 stands for Infinity)
RECURSIVE QuantizeLoop(_, _, _, _)
QuantizeLoop(hex, i, closestColor, minDistance) ==
    IF i > Len(webColors) THEN closestColor
    ELSE LET distance == colorDistance(hex, webColors[i])
         IN  IF minDistance = -1 \/ distance < minDistance
             THEN QuantizeLoop(hex, i + 1, webColors[i], distance)
             ELSE QuantizeLoop(hex, i + 1, closestColor, minDistance)

RECURSIVE QuantizeLoop_lastWins(_, _, _, _)
QuantizeLoop_lastWins(hex, i, closestColor, minDistance) ==
    IF i > Len(webColors) THEN closestColor
    ELSE LET distance == colorDistance(hex, webColors[i])
         IN  IF minDistance = -1 \/ distance <= minDistance
             THEN QuantizeLoop_lastWins(hex, i + 1, webColors[i], distance)
             ELSE QuantizeLoop_lastWins(hex, i + 1, closestColor, minDistance)

quantizeToWebColors_lastWins(hex) == QuantizeLoop_lastWins(hex, 1, webColors[1], -1)

\* quantizeToWebColors(hex)
quantizeToWebColors(hex) == QuantizeLoop(hex, 1, webColors[1], -1)

\* ------------------------------------------------------------------------
\* Numbers that may be NaN; exact products and quotients
\* ------------------------------------------------------------------------

\* a score: NaN or the fraction num/den (den > 0)
NaN == [nan |-> TRUE, num |-> 0, den |-> 1]

Frac(n, d) == [nan |-> FALSE, num |-> n, den |-> d]

Num(v) == Frac(v, 1)

InRange(s, lo, hi) == ~s.nan /\ s.num >= lo * s.den /\ s.num <= hi * s.den

IsInteger(s) == ~s.nan /\ s.num % s.den = 0

\* Math.round of the fraction n/d (d > 0): floor(n/d + 1/2)
RoundFrac(n, d) == (2 * n + d) \div (2 * d)

\* quotient and remainder of ra * b by c for ra < c, digit by digit of b,
\* so that no intermediate value leaves the 32-bit integers (c < 10^8)
RECURSIVE MulDivDigits(_, _, _)
MulDivDigits(ra, b, c) ==
    IF b = 0 THEN [q |-> 0, r |-> 0]
    ELSE LET prev == MulDivDigits(ra, b \div 10, c)
             t == prev.r * 10 + ra * (b % 10)
         IN  [q |-> prev.q * 10 + t \div c, r |-> t % c]

\* a * b = q * c + r, 0 <= r < c
MulDivMod(a, b, c) ==
    LET low == MulDivDigits(a % c, b, c)
    IN  [q |-> (a \div c) * b + low.q, r |-> low.r]

\* ------------------------------------------------------------------------
\* Images
\* ------------------------------------------------------------------------
\* An image is width x height RGBA pixels; the images of the model are the
\* two-column images: left of column `split` every pixel is `left`, from
\* column `split` on every pixel is `right` (split = 0: a flat image).

PixelAt(img, x, y) == IF x < img.split THEN img.left ELSE img.right

\* ------------------------------------------------------------------------
\* AdvancedDesignAnalyzer: layout balance and symmetry
\* ------------------------------------------------------------------------

\* quadrant weights are kept in units of 1/WeightScale
WeightScale == 1000

\* getSaturation is (max - min) / max, or 0 when max = 0; the weight is
\* luminance * (1 + saturation)
PixelWeight(p) ==
    LET mx == Max3(p[1], p[2], p[3])
        mn == Min3(p[1], p[2], p[3])
        luminance == getLuminance(p[1], p[2], p[3])
    IN  IF mx = 0 THEN luminance \div (LumScale \div WeightScale)
        ELSE (luminance * (2 * mx - mn)) \div (mx * (LumScale \div WeightScale))

\* quarterIndex of pixel (x, y), 1-based
QuarterIndex(img, x, y) ==
    LET quarterWidth == img.width \div 2
        quarterHeight == img.height \div 2
    IN  1 + (IF x < quarterWidth THEN 0 ELSE 1) + (IF y < quarterHeight THEN 0 ELSE 2)

\* the pixels that the two loops of analyzeVisualWeight visit
SampledPixels(img) ==
    {<<2 * i, 2 * j>> : i \in 0..((img.width - 1) \div 2), j \in 0..((img.height - 1) \div 2)}

\* what the loops add to quarters[q]: a pixel value p adds its weight once
\* for every visited pixel of quarter q that holds p
QuarterWeight(img, q) ==
    LET hits(p) == Cardinality({s \in SampledPixels(img) :
                                   /\ QuarterIndex(img, s[1], s[2]) = q
                                   /\ PixelAt(img, s[1], s[2]) = p})
    IN  hits(img.left) * PixelWeight(img.left)
            + (IF img.right = img.left THEN 0 ELSE hits(img.right) * PixelWeight(img.right))

\* analyzeVisualWeight(data, width, height)
analyzeVisualWeight(img) ==
    <<QuarterWeight(img, 1), QuarterWeight(img, 2), QuarterWeight(img, 3), QuarterWeight(img, 4)>>

calculateBalance_vertical(quarters) ==
    LET total == quarters[1] + quarters[2] + quarters[3] + quarters[4]
        top == quarters[1] + quarters[2]
        bottom == quarters[3] + quarters[4]
        m == MulDivMod(2 * Abs(top - bottom), 100, 2 * total)
    IN  IF total = 0 THEN Num(50)
        ELSE Num(100 - (m.q + (IF m.r >= total + 1 THEN 1 ELSE 0)))

\* calculateBalance(quarters):
\* round(((100 - |left-right|/total*100) + (100 - |top-bottom|/total*100)) / 2)
\*   = 100 - ceil((100 * D - total) / (2 * total)),  D = |left-right| + |top-bottom|
calculateBalance(quarters) ==
    LET total == quarters[1] + quarters[2] + quarters[3] + quarters[4]
        left == quarters[1] + quarters[3]
        right == quarters[2] + quarters[4]
        top == quarters[1] + quarters[2]
        bottom == quarters[3] + quarters[4]
        m == MulDivMod(Abs(left - right) + Abs(top - bottom), 100, 2 * total)
    IN  IF total = 0 THEN Num(50)
        ELSE Num(100 - (m.q + (IF m.r >= total + 1 THEN 1 ELSE 0)))

\* millionths of a unit in which the three symmetry terms are added
SymmetryUnit == 1000000

\* Math.abs(a - b) / Math.max(a, b) * 50, in 1/SymmetryUnit; 0/0 is NaN
SymmetryLoss(a, b) ==
    IF Max2(a, b) = 0 THEN NaN
    ELSE Num(MulDivMod(Abs(a - b), 50 * SymmetryUnit, Max2(a, b)).q)

\* calculateSymmetry(quarters): round((h + v + d) / 3), each of h, v, d
\* being 100 minus a loss
calculateSymmetry(quarters) ==
    LET topLeft == quarters[1]
        topRight == quarters[2]
        bottomLeft == quarters[3]
        bottomRight == quarters[4]
        horizontal == SymmetryLoss(topLeft, topRight)
        vertical == SymmetryLoss(topLeft, bottomLeft)
        diagonal == SymmetryLoss(topLeft, bottomRight)
    IN  IF horizontal.nan \/ vertical.nan \/ diagonal.nan THEN NaN
        ELSE Num(RoundFrac(300 * SymmetryUnit - (horizontal.num + vertical.num + diagonal.num),
                           3 * SymmetryUnit))

\* calculateVisualWeight(quarters): max(0, 100 - variance / total * 100) with
\* variance = sum((q - total/4)^2) / 4 = sum((4q - total)^2) / 64, in hundredths
calculateVisualWeight(quarters) ==
    LET total == quarters[1] + quarters[2] + quarters[3] + quarters[4]
        Loss(q) == MulDivMod(MulDivMod(Abs(4 * q - total), Abs(4 * q - total), total).q,
                             10000, 64 * WeightScale).q
    IN  IF total = 0 THEN Num(50)
        ELSE Frac(Max2(0, 10000 - (Loss(quarters[1]) + Loss(quarters[2])
                                    + Loss(quarters[3]) + Loss(quarters[4]))), 100)

\* ------------------------------------------------------------------------
\* Sequences: Array.prototype.sort, Set, Map
\* ------------------------------------------------------------------------

\* e placed behind every element of the sorted sequence whose key is >= e.key
RECURSIVE InsertByKey(_, _)
InsertByKey(sorted, e) ==
    IF sorted = <<>> THEN <<e>>
    ELSE IF Head(sorted).key >= e.key
         THEN <<Head(sorted)>> \o InsertByKey(Tail(sorted), e)
         ELSE <<e>> \o sorted

\* Array.prototype.sort((a, b) => b.key - a.key): descending and stable
RECURSIVE SortDescending(_)
SortDescending(seq) ==
    IF seq = <<>> THEN <<>>
    ELSE InsertByKey(SortDescending(SubSeq(seq, 1, Len(seq) - 1)), seq[Len(seq)])

Contains(seq, e) == \E i \in 1..Len(seq) : seq[i] = e

\* [...new Set(seq)]: the distinct elements in order of first occurrence
RECURSIVE Unique(_)
Unique(seq) ==
    IF seq = <<>> THEN <<>>
    ELSE LET front == Unique(SubSeq(seq, 1, Len(seq) - 1))
             e == seq[Len(seq)]
         IN  IF Contains(front, e) THEN front ELSE Append(front, e)

\* slice(0, n)
Take(seq, n) == SubSeq(seq, 1, Min2(n, Len(seq)))

\* filter
RECURSIVE Without(_, _)
Without(seq, excluded) ==
    IF seq = <<>> THEN <<>>
    ELSE IF Head(seq) \in excluded THEN Without(Tail(seq), excluded)
         ELSE <<Head(seq)>> \o Without(Tail(seq), excluded)

MapIncrement_overwrite(map, k) ==
    IF \E i \in 1..Len(map) : map[i].color = k
    THEN [i \in 1..Len(map) |->
            IF map[i].color = k THEN [map[i] EXCEPT !.count = 1] ELSE map[i]]
    ELSE Append(map, [color |-> k, count |-> 1])

\* map.set(k, (map.get(k) || 0) + 1) on a Map kept as the sequence of its
\* entries [color, count] in insertion order
MapIncrement(map, k) ==
    IF \E i \in 1..Len(map) : map[i].color = k
    THEN [i \in 1..Len(map) |->
            IF map[i].color = k THEN [map[i] EXCEPT !.count = @ + 1] ELSE map[i]]
    ELSE Append(map, [color |-> k, count |-> 1])

\* Array.from(map.entries()).sort((a, b) => b[1] - a[1])
SortByCount(map) ==
    LET keyed == [i \in 1..Len(map) |-> [key |-> map[i].count, val |-> map[i]]]
        sorted == SortDescending(keyed)
    IN  [i \in 1..Len(sorted) |-> sorted[i].val]

\* ------------------------------------------------------------------------
\* AIDesignAnalyzer: dominant colours and palette
\* ------------------------------------------------------------------------

Hex(s1, s2, s3, s4, s5, s6) == <<s1, s2, s3, s4, s5, s6>>

White == Hex("F","F","F","F","F","F")

Black == Hex("0","0","0","0","0","0")

\* getDefaultColors()
getDefaultColors ==
    [background |-> White,
     text |-> Hex("3","3","3","3","3","3"),
     primary |-> Hex("0","0","7","B","F","F"),
     secondary |-> Hex("6","C","7","5","7","D"),
     accent |-> Hex("F","F","6","B","6","B")]

isGray_inverted(r, g, b) ==
    LET maxDiff == 20
    IN  Abs(r - g) > maxDiff /\ Abs(r - b) > maxDiff /\ Abs(g - b) > maxDiff

\* isGray(r, g, b)
isGray(r, g, b) ==
    LET maxDiff == 20
    IN  Abs(r - g) < maxDiff /\ Abs(r - b) < maxDiff /\ Abs(g - b) < maxDiff

\* the colorGroups map of calculateAdvancedDominantColors
RECURSIVE ColorGroups(_)
ColorGroups(colors) ==
    IF colors = <<>> THEN <<>>
    ELSE MapIncrement(ColorGroups(SubSeq(colors, 1, Len(colors) - 1)),
                      quantizeToWebColors(colors[Len(colors)]))

\* topColors: the 10 most frequent quantized colours
TopColors(colors) ==
    LET sorted == Take(SortByCount(ColorGroups(colors)), 10)
    IN  [i \in 1..Len(sorted) |-> sorted[i].color]

\* colors.filter(pred)[0], by index
RECURSIVE FirstLight(_, _)
FirstLight(colors, i) ==
    IF i > Len(colors) THEN 0
    ELSE IF LightnessAbove(colors[i], 60) THEN i ELSE FirstLight(colors, i + 1)

findBestBackgroundColor_mostFrequent(colors) ==
    IF colors # <<>> THEN colors[1] ELSE White

\* findBestBackgroundColor(colors)
findBestBackgroundColor(colors) ==
    LET light == FirstLight(colors, 1)
    IN  IF light > 0 THEN colors[light]
        ELSE IF colors # <<>> THEN colors[1] ELSE White

\* the loop of findBestTextColor from entry i on; maxContrast 0 is 0/1
RECURSIVE BestTextLoop(_, _, _, _, _)
BestTextLoop(colors, background, i, bestColor, maxContrast) ==
    IF i > Len(colors) THEN [bestColor |-> bestColor, maxContrast |-> maxContrast]
    ELSE IF colors[i] = background
         THEN BestTextLoop(colors, background, i + 1, bestColor, maxContrast)
         ELSE LET contrast == calculateContrastRatio(background, colors[i])
              IN  IF FracLess(maxContrast, contrast)
                  THEN BestTextLoop(colors, background, i + 1, colors[i], contrast)
                  ELSE BestTextLoop(colors, background, i + 1, bestColor, maxContrast)

findBestTextColor_noFloor(colors, background) ==
    BestTextLoop(colors, background, 1, Black, [num |-> 0, den |-> 1]).bestColor

\* findBestTextColor(colors, background)
findBestTextColor(colors, background) ==
    LET best == BestTextLoop(colors, background, 1, Black, [num |-> 0, den |-> 1])
    IN  IF FracLessInt(best.maxContrast, 3)
        THEN (IF LightnessAbove(background, 50) THEN Black ELSE White)
        ELSE best.bestColor

vibrantColors ==
    <<Hex("F","F","6","B","6","B"), Hex("4","E","C","D","C","4"),
      Hex("4","5","B","7","D","1"), Hex("9","6","C","E","B","4"),
      Hex("F","F","E","A","A","7"), Hex("D","D","A","0","D","D"),
      Hex("F","7","D","C","6","F"), Hex("B","B","8","F","C","E")>>

\* generateComplementary(hex)
generateComplementary(hex) ==
    LET rgb == hexToRgb(hex)
    IN  rgbToHex(255 - rgb[1], 255 - rgb[2], 255 - rgb[3])

\* the accents table of generateAccentColor: keys and values
accentPairs ==
    <<<<vibrantColors[1], vibrantColors[2]>>, <<vibrantColors[2], vibrantColors[1]>>,
      <<vibrantColors[3], vibrantColors[5]>>, <<vibrantColors[4], vibrantColors[6]>>,
      <<vibrantColors[5], vibrantColors[3]>>, <<vibrantColors[6], vibrantColors[4]>>>>

generateAccentColor_noTable(base) == generateComplementary(base)

\* generateAccentColor(base)
generateAccentColor(base) ==
    IF \E i \in 1..Len(accentPairs) : accentPairs[i][1] = base
    THEN accentPairs[CHOOSE i \in 1..Len(accentPairs) : accentPairs[i][1] = base][2]
    ELSE generateComplementary(base)

\* the rest of calculateAdvancedDominantColors once primary is known
DominantWithPrimary(background, textColor, remaining, primary) ==
    [background |-> background,
     text |-> textColor,
     primary |-> primary,
     secondary |-> IF Len(remaining) >= 2 THEN remaining[2] ELSE generateComplementary(primary),
     accent |-> IF Len(remaining) >= 3 THEN remaining[3] ELSE generateAccentColor(primary)]

\* remaining = topColors.filter(c => c !== background && c !== textColor)
RemainingColors(topColors, background, textColor) == Without(topColors, {background, textColor})

\* the rest of calculateAdvancedDominantColors once textColor is known
DominantWithText(topColors, background, textColor, vibrant) ==
    DominantWithPrimary(background, textColor,
                        RemainingColors(topColors, background, textColor),
                        IF Len(RemainingColors(topColors, background, textColor)) >= 1
                        THEN RemainingColors(topColors, background, textColor)[1]
                        ELSE vibrant)

\* the rest of calculateAdvancedDominantColors once topColors is known
DominantOfTop(topColors, background, vibrant) ==
    DominantWithText(topColors, background, findBestTextColor(topColors, background), vibrant)

\* calculateAdvancedDominantColors(colors); vibrant is the value that
\* generateVibrantColor() returns if it is called
calculateAdvancedDominantColors(colors, vibrant) ==
    IF Len(colors) = 0 THEN getDefaultColors
    ELSE DominantOfTop(TopColors(colors), findBestBackgroundColor(TopColors(colors)), vibrant)

createAdvancedPalette_noSort(colors) == Unique(colors)

createAdvancedPalette_quantized(colors) ==
    LET unique == Unique([i \in 1..Len(colors) |-> quantizeToWebColors(colors[i])])
        keyed == [i \in 1..Len(unique) |-> [key |-> getLightness(unique[i]), val |-> unique[i]]]
        sorted == SortDescending(keyed)
    IN  [i \in 1..Len(sorted) |-> sorted[i].val]

\* createAdvancedPalette(colors)
createAdvancedPalette(colors) ==
    LET unique == Unique(colors)
        keyed == [i \in 1..Len(unique) |-> [key |-> getLightness(unique[i]), val |-> unique[i]]]
        sorted == SortDescending(keyed)
    IN  [i \in 1..Len(sorted) |-> sorted[i].val]

\* ------------------------------------------------------------------------
\* AIDesignAnalyzer: scores
\* ------------------------------------------------------------------------

\* calculateReadabilityScore(contrast): min(100, max(40, floor(contrast*8 + 30)))
calculateReadabilityScore(contrast) ==
    Min2(100, Max2(40, (8 * contrast.num) \div contrast.den + 30))

\* calculateAdvancedColorScore(palette, dominantColors)
calculateAdvancedColorScore(palette, dominantColors) ==
    LET uniqueColors == Cardinality({palette[i] : i \in 1..Len(palette)})
        contrast == calculateContrastRatio(dominantColors.background, dominantColors.text)
        bonus == IF FracAboveTenths(contrast, 70) THEN 10
                 ELSE IF FracAboveTenths(contrast, 45) THEN 5 ELSE 0
    IN  Min2(95, 70 + Min2(15, uniqueColors * 2) + bonus)

\* Math.abs(width / height - ratio) < 0.1, ratio given in thousandths
NearRatio(width, height, thousandths) ==
    Abs(1000 * width - thousandths * height) < 100 * height

\* AIDesignAnalyzer.analyzeLayout(image)
analyzeLayoutAI(width, height) ==
    Min2(95, 75 + (IF NearRatio(width, height, 1618) THEN 10 ELSE 0)
                + (IF NearRatio(width, height, 1777) THEN 8 ELSE 0)
                + (IF NearRatio(width, height, 1500) THEN 7 ELSE 0))

\* Math.round((a + b + c + d + e) / 5)
OverallAverage(a, b, c, d, e) == RoundFrac(a + b + c + d + e, 5)

\* ------------------------------------------------------------------------
\* AdvancedDesignAnalyzer: colours
\* ------------------------------------------------------------------------

\* quantizeColor(r, g, b)
quantizeColor(r, g, b) ==
    LET levels == 8
    IN  rgbToHex((r \div levels) * levels, (g \div levels) * levels, (b \div levels) * levels)

\* adjustColor(hex, amount)
adjustColor(hex, amount) ==
    LET rgb == hexToRgb(hex)
        Adjusted(c) == Min2(255, Max2(0, c + amount))
    IN  rgbToHex(Adjusted(rgb[1]), Adjusted(rgb[2]), Adjusted(rgb[3]))

\* the contrast computed inside AdvancedDesignAnalyzer.findBestTextColor
LuminanceContrast(bgLuminance, luminance) ==
    IF bgLuminance > luminance
    THEN [num |-> bgLuminance + ContrastOffset, den |-> luminance + ContrastOffset]
    ELSE [num |-> luminance + ContrastOffset, den |-> bgLuminance + ContrastOffset]

\* the loop of AdvancedDesignAnalyzer.findBestTextColor over entry i on
RECURSIVE BestTextLoopAdv(_, _, _, _, _)
BestTextLoopAdv(colors, bgLuminance, i, bestColor, bestContrast) ==
    IF i > Len(colors) THEN [bestColor |-> bestColor, bestContrast |-> bestContrast]
    ELSE LET contrast == LuminanceContrast(bgLuminance, getLuminanceFromHex(colors[i].color))
         IN  IF FracLess(bestContrast, contrast) /\ ~FracLessInt(contrast, 2)
                  /\ contrast.num # 2 * contrast.den
             THEN BestTextLoopAdv(colors, bgLuminance, i + 1, colors[i].color, contrast)
             ELSE BestTextLoopAdv(colors, bgLuminance, i + 1, bestColor, bestContrast)

\* AdvancedDesignAnalyzer.findBestTextColor(background, colors)
findBestTextColorAdv(background, colors) ==
    LET bgLuminance == getLuminanceFromHex(background)
        best == BestTextLoopAdv(Take(colors, 10), bgLuminance, 1, Black,
                                [num |-> 0, den |-> 1])
    IN  IF best.bestContrast.num * 10 >= 45 * best.bestContrast.den
        THEN best.bestColor
        ELSE (IF bgLuminance * 2 > LumScale THEN Black ELSE White)

\* the accent of calculateDominantColors: the first colour of medium
\* luminance that is not the background (0 if there is none)
RECURSIVE FirstAccent(_, _, _)
FirstAccent(sortedColors, background, i) ==
    IF i > Len(sortedColors) THEN 0
    ELSE LET luminance == getLuminanceFromHex(sortedColors[i].color)
         IN  IF luminance * 10 > 3 * LumScale /\ luminance * 10 < 7 * LumScale
                  /\ sortedColors[i].color # background
             THEN i
             ELSE FirstAccent(sortedColors, background, i + 1)

\* calculateDominantColors(sortedColors)
calculateDominantColors(sortedColors) ==
    IF Len(sortedColors) = 0
    THEN [background |-> White, text |-> Black, primary |-> Black,
          secondary |-> Hex("6","6","6","6","6","6"),
          accent |-> Hex("F","F","0","0","0","0")]
    ELSE LET background == sortedColors[1].color
             accent == FirstAccent(sortedColors, background, 1)
         IN  [background |-> background,
              text |-> findBestTextColorAdv(background, sortedColors),
              primary |-> IF Len(sortedColors) >= 2 THEN sortedColors[2].color
                          ELSE adjustColor(background, 30),
              secondary |-> IF Len(sortedColors) >= 3 THEN sortedColors[3].color
                            ELSE adjustColor(background, 50),
              accent |-> IF accent > 0 THEN sortedColors[accent].color
                         ELSE Hex("F","F","6","B","6","B")]

\* calculateColorHarmony(palette)
calculateColorHarmony(palette) ==
    LET pairs == {p \in (1..Len(palette)) \X (1..Len(palette)) :
                    /\ p[1] < p[2]
                    /\ LET contrast == calculateContrastRatio(palette[p[1]], palette[p[2]])
                       IN  contrast.num > 2 * contrast.den /\ contrast.num < 8 * contrast.den}
    IN  Min2(20, 5 * Cardinality(pairs))

\* calculateColorScore(palette)
calculateColorScore(palette) ==
    IF Len(palette) < 3 THEN 40
    ELSE Min2(100, 50 + Min2(Len(palette) * 5, 30) + calculateColorHarmony(palette))

\* ------------------------------------------------------------------------
\* AdvancedDesignAnalyzer: edges, text regions, grid alignment
\* ------------------------------------------------------------------------

\* data[(y * width + x) * 4 ..]: the pixel at a linear position, <<>> where
\* the typed array has no element (the read gives undefined)
DataAt(img, n) ==
    IF n >= 0 /\ n < img.width * img.height
    THEN PixelAt(img, n % img.width, n \div img.width)
    ELSE <<>>

\* getLuminance of a pixel read from data; NaN for undefined channels
LuminanceAt(img, n) ==
    LET p == DataAt(img, n)
    IN  IF p = <<>> THEN NaN ELSE Num(getLuminance(p[1], p[2], p[3]))

NeighbourOffsets ==
    <<<<-1, -1>>, <<0, -1>>, <<1, -1>>, <<-1, 0>>, <<1, 0>>, <<-1, 1>>, <<0, 1>>, <<1, 1>>>>

isPixelEdge_bytes(img, x, y, threshold) ==
    LET current == LuminanceAt(img, y * img.width + x)
    IN  /\ ~current.nan
        /\ \E k \in 1..Len(NeighbourOffsets) :
              LET neighbour == LuminanceAt(img, (y + NeighbourOffsets[k][2]) * img.width
                                                  + (x + NeighbourOffsets[k][1]))
              IN  /\ ~neighbour.nan
                  /\ Abs(current.num - neighbour.num) * 255 > threshold * LumScale

\* isPixelEdge(data, width, x, y, threshold); a comparison with NaN is false
isPixelEdge(img, x, y, threshold) ==
    LET current == LuminanceAt(img, y * img.width + x)
    IN  /\ ~current.nan
        /\ \E k \in 1..Len(NeighbourOffsets) :
              LET neighbour == LuminanceAt(img, (y + NeighbourOffsets[k][2]) * img.width
                                                  + (x + NeighbourOffsets[k][1]))
              IN  /\ ~neighbour.nan
                  /\ Abs(current.num - neighbour.num) > threshold * LumScale

\* the neighbours of (x, y) that growTextRegion pushes, in loop order
RECURSIVE PushedNeighbours(_, _, _, _, _, _)
PushedNeighbours(img, x, y, visited, threshold, k) ==
    IF k > Len(NeighbourOffsets) THEN <<>>
    ELSE LET newX == x + NeighbourOffsets[k][1]
             newY == y + NeighbourOffsets[k][2]
             newIndex == (newY * img.width + newX) * 4
             rest == PushedNeighbours(img, x, y, visited, threshold, k + 1)
         IN  IF newIndex \notin visited /\ isPixelEdge(img, newX, newY, threshold)
             THEN <<<<newX, newY>>>> \o rest
             ELSE rest

\* the while loop of growTextRegion
RECURSIVE GrowLoop(_, _, _, _, _)
GrowLoop(img, queue, visited, region, threshold) ==
    IF queue = <<>> THEN [visited |-> visited, region |-> region]
    ELSE LET x == Head(queue)[1]
             y == Head(queue)[2]
             index == (y * img.width + x) * 4
         IN  IF index \in visited \/ x < 0 \/ x >= img.width \/ y < 0 \/ y >= img.height
             THEN GrowLoop(img, Tail(queue), visited, region, threshold)
             ELSE GrowLoop(img,
                           Tail(queue) \o PushedNeighbours(img, x, y, visited \cup {index},
                                                           threshold, 1),
                           visited \cup {index}, region \cup {index}, threshold)

\* growTextRegion(data, width, height, startX, startY, visited, threshold)
growTextRegion(img, startX, startY, visited, threshold) ==
    GrowLoop(img, <<<<startX, startY>>>>, visited, {}, threshold)

\* the inner loop of detectTextRegions: row y from seed column x on; acc
\* holds the visited set and the regions found so far
RECURSIVE DetectRow(_, _, _, _, _)
DetectRow(img, x, y, acc, threshold) ==
    IF x >= img.width - 1 THEN acc
    ELSE IF (y * img.width + x) * 4 \in acc.visited \/ ~isPixelEdge(img, x, y, threshold)
         THEN DetectRow(img, x + 3, y, acc, threshold)
         ELSE LET grown == growTextRegion(img, x, y, acc.visited, threshold)
              IN  DetectRow(img, x + 3, y,
                            [visited |-> grown.visited,
                             regions |-> IF Cardinality(grown.region) > 10
                                         THEN Append(acc.regions, grown.region)
                                         ELSE acc.regions],
                            threshold)

\* the outer loop of detectTextRegions: from seed row y on
RECURSIVE DetectLoop(_, _, _, _)
DetectLoop(img, y, acc, threshold) ==
    IF y >= img.height - 1 THEN acc.regions
    ELSE DetectLoop(img, y + 3, DetectRow(img, 1, y, acc, threshold), threshold)

\* the seed pixels that the loops of detectTextRegions test
SeedPixels(img) ==
    {<<1 + 3 * i, 1 + 3 * j>> : i \in 0..((img.width - 3) \div 3), j \in 0..((img.height - 3) \div 3)}

\* detectTextRegions(data, width, height); without an edge at a seed pixel
\* the loops leave regions empty
detectTextRegions(img) ==
    LET threshold == 50
    IN  IF \A s \in SeedPixels(img) : ~isPixelEdge(img, s[1], s[2], threshold) THEN <<>>
        ELSE DetectLoop(img, 1, [visited |-> {}, regions |-> <<>>], threshold)

\* the else branch of detectAlignmentLines adds 5 at (x, y): (x, y) is no
\* edge and the run of edges that ends just above it is longer than
\* height * 0.1, i.e. covers the height \div 10 + 1 pixels above it
EndsLine(img, x, y, threshold) ==
    LET needed == img.height \div 10 + 1
    IN  /\ ~isPixelEdge(img, x, y, threshold)
        /\ y - needed >= 1
        /\ \A j \in (y - needed)..(y - 1) : isPixelEdge(img, x, j, threshold)

\* detectAlignmentLines(data, width, height)
detectAlignmentLines(img) ==
    LET threshold == 30
        ends == {<<10 * i, y>> : i \in 0..((img.width - 1) \div 10), y \in 1..(img.height - 2)}
    IN  Min2(30, 5 * Cardinality({e \in ends : EndsLine(img, e[1], e[2], threshold)}))

\* analyzeGridAlignment(data, width, height)
analyzeGridAlignment(img) == Min2(100, Max2(0, 50 + detectAlignmentLines(img)))

\* ------------------------------------------------------------------------
\* State
\* ------------------------------------------------------------------------

VARIABLES
    hexA, hexB,      \* colour functions: the two argument colours
    cpc,             \* colour functions: which function has been applied
    ratio,           \* result of calculateContrastRatio(hexA, hexB)
    quantized,       \* result of quantizeToWebColors(hexA)
    limg,            \* layout functions: the image analysed
    quarters,        \* the four quadrant weights [TL, TR, BL, BR]
    balance,         \* result of calculateBalance(quarters)
    symmetry,        \* result of calculateSymmetry(quarters)
    lpc,             \* layout functions: position in analyzeLayout
    analyzer,        \* "AI" (AIDesignAnalyzer) or "Advanced" (AdvancedDesignAnalyzer)
    image,           \* the image file passed to analyzeDesign
    canvas,          \* width and height of the canvas of the analyzer
    pc,              \* position of the analyzeDesign call
    region, draw,    \* sampleStrategicRegions: region index and loop counter i
    colors,          \* sampleStrategicRegions: the colors array
    colorMap,        \* analyzeColors: the colorMap
    colorIndex,      \* analyzeColors: the loop index i, in pixels (i / 4)
    textAnalysis,    \* result of analyzeText, or pending
    layoutAnalysis,  \* result of AdvancedDesignAnalyzer.analyzeLayout
    dominantColors,  \* the five dominant colours
    palette,         \* the exported palette
    contrast,        \* contrast ratio (AI) / overallContrast (Advanced)
    outcome,         \* the promise of analyzeDesign: pending, resolved, rejected
    result,          \* the AnalysisResult the promise resolved with
    firstRun,        \* the result of the previous call on the same image, if any
    rimg,            \* detectTextRegions: the image data
    rthreshold,      \* the threshold passed to isPixelEdge and growTextRegion
    rpc,             \* detectTextRegions: position (seed loop, growTextRegion, done)
    rseed,           \* detectTextRegions: the loop variables x and y
    rqueue,          \* growTextRegion: queue
    rvisited,        \* detectTextRegions: visited
    rregion,         \* growTextRegion: region
    rgrown,          \* the regions that the calls of growTextRegion have returned
    rregions,        \* detectTextRegions: regions
    fbColors,        \* generateAdvancedHumanFeedback: colors
    fbContrast,      \* generateAdvancedHumanFeedback: contrast
    fbpc,            \* generateAdvancedHumanFeedback: position
    uniqueStrengths, \* generateAdvancedHumanFeedback: uniqueStrengths
    uniqueSuggestions, \* generateAdvancedHumanFeedback: uniqueSuggestions
    file,            \* Upload: the state file
    previewUrl,      \* Upload: the state previewUrl
    isProcessing,    \* Upload: the state isProcessing
    statusText,      \* Upload: the state statusText
    upc,             \* handleAnalyze: the await it is suspended at, or its end
    imageUrl,        \* handleAnalyze: imageUrl
    designId,        \* handleAnalyze: designId
    parsedFeedback,  \* handleAnalyze: parsedFeedback
    kvPending,       \* the key and value of the kv.set call that has not settled
    passed,          \* the steps that the current run of handleAnalyze has passed
    kvCalls,         \* the keys that kv.set has been called with
    kvStore,         \* the key-value store: the records written
    timer,           \* the callback scheduled with setTimeout, if any
    route,           \* the route navigated to
    runs             \* the number of calls of handleAnalyze

colorVars == <<hexA, hexB, cpc, ratio, quantized>>

layoutVars == <<limg, quarters, balance, symmetry, lpc>>

runVars == <<pc, canvas, region, draw, colors, colorMap, colorIndex, textAnalysis, layoutAnalysis,
             dominantColors, palette, contrast, outcome, result>>

pipelineVars == <<analyzer, image, runVars, firstRun>>

regionVars == <<rimg, rthreshold, rpc, rseed, rqueue, rvisited, rregion, rgrown, rregions>>

feedbackVars == <<fbColors, fbContrast, fbpc, uniqueStrengths, uniqueSuggestions>>

uploadVars == <<file, previewUrl, isProcessing, statusText, upc, imageUrl, designId,
                parsedFeedback, kvPending, passed, kvCalls, kvStore, timer, route, runs>>

vars == <<colorVars, layoutVars, pipelineVars, regionVars, feedbackVars, uploadVars>>

\* ------------------------------------------------------------------------
\* Input domains
\* ------------------------------------------------------------------------

\* number of levels per colour channel of the input colours
NumLevels == 4

ChannelLevels == {(k * 255) \div (NumLevels - 1) : k \in 0..(NumLevels - 1)}

\* colours at equal distance from two reference entries, and a near-white
ExtraColours == {<<0, 51, 153>>, <<0, 141, 3>>, <<255, 255, 230>>}

WebColorSet == {webColors[i] : i \in 1..Len(webColors)}

ColourInputs ==
    {rgbToHex(r, g, b) : r \in ChannelLevels, g \in ChannelLevels, b \in ChannelLevels}
        \cup {rgbToHex(c[1], c[2], c[3]) : c \in ExtraColours}
        \cup WebColorSet

\* largest quadrant weight of the directly chosen weight vectors
MaxWeight == 3

\* largest width and height of the images of the layout functions
MaxDim == 7

PixelColours ==
    {<<0, 0, 0, 255>>, <<255, 255, 255, 255>>, <<255, 0, 0, 255>>,
     <<0, 255, 0, 255>>, <<0, 0, 255, 255>>, <<0, 0, 0, 0>>}

NoImage == [width |-> 0, height |-> 0, split |-> 0,
            left |-> <<0, 0, 0, 0>>, right |-> <<0, 0, 0, 0>>]

\* the 400x300 image whose left half is pure red and right half pure blue
RedBlueImage ==
    [width |-> 400, height |-> 300, split |-> 200,
     left |-> <<255, 0, 0, 255>>, right |-> <<0, 0, 255, 255>>]

\* flat images and images split at the middle column
LayoutImages ==
    {img \in [width : 1..MaxDim, height : 1..MaxDim, split : 0..(MaxDim \div 2),
              left : PixelColours, right : PixelColours] :
        \/ img.split = 0 /\ img.left = img.right
        \/ img.split > 0 /\ img.split = img.width \div 2}
        \cup {RedBlueImage}

IsFlat(img) == img.split = 0 \/ img.left = img.right

IsBlack(p) == p[1] = 0 /\ p[2] = 0 /\ p[3] = 0

\* Math.random() returns k / RandSteps for some k in 0..RandSteps-1
RandSteps == 2

RandomDraws == 0..(RandSteps - 1)

\* Math.floor(Math.random() * n) for the draw k
FloorRandom(k, n) == (k * n) \div RandSteps

\* draws per region that the model follows (the loop bound of the code is 800)
DrawsPerRegion == 2

\* iterations of a loop that does not advance that the model follows
MaxStuckIterations == 3

PxWhite == <<255, 255, 255, 255>>

PxBlack == <<0, 0, 0, 255>>

PxGreen == <<0, 255, 0, 255>>

PxRed == <<255, 0, 0, 255>>

PxBlue == <<0, 0, 255, 255>>

PxCream == <<255, 255, 230, 255>>

PxClear == <<0, 0, 0, 0>>

\* a decodable file whose image changes colour at column s
SplitFile(w, h, s, l, r) ==
    [decodable |-> TRUE, width |-> w, height |-> h, split |-> s, left |-> l, right |-> r]

\* a decodable file whose image is flat (l = r) or changes colour at the middle
ImageFile(w, h, l, r) == SplitFile(w, h, IF l = r THEN 0 ELSE w \div 2, l, r)

\* a file that the browser cannot decode
CorruptFile ==
    [decodable |-> FALSE, width |-> 0, height |-> 0, split |-> 0,
     left |-> PxClear, right |-> PxClear]

\* left and right colours of the images given to analyzeDesign
AnalysisColours ==
    {<<PxWhite, PxWhite>>, <<PxBlack, PxBlack>>, <<PxGreen, PxGreen>>, <<PxRed, PxRed>>,
     <<PxCream, PxCream>>, <<PxBlack, PxWhite>>, <<PxRed, PxBlue>>, <<PxGreen, PxCream>>,
     <<PxWhite, PxRed>>, <<PxClear, PxGreen>>}

\* the image files given to AIDesignAnalyzer
AIFiles ==
    {ImageFile(s[1], s[2], c[1], c[2]) : s \in {<<16, 10>>, <<100, 100>>}, c \in AnalysisColours}
        \cup {CorruptFile}

\* the image files given to AdvancedDesignAnalyzer: images of fewer than and
\* of at least 5000 pixels, and an image that setupCanvas scales to width 0
AdvancedFiles ==
    {ImageFile(s[1], s[2], c[1], c[2]) :
        s \in {<<6, 6>>, <<100, 100>>},
        c \in {<<PxWhite, PxWhite>>, <<PxBlack, PxBlack>>, <<PxGreen, PxGreen>>,
               <<PxBlack, PxWhite>>, <<PxRed, PxBlue>>}}
        \cup {ImageFile(102, 50, PxWhite, PxWhite), ImageFile(8, 700, PxWhite, PxWhite),
              SplitFile(100, 100, 30, PxRed, PxBlue), ImageFile(8, 5, PxBlack, PxWhite),
              ImageFile(1, 1000, PxWhite, PxWhite)}
        \cup {CorruptFile}

\* the image files that are analysed twice
TwiceFiles ==
    {ImageFile(16, 10, PxGreen, PxGreen), ImageFile(16, 10, PxWhite, PxWhite),
     ImageFile(100, 100, PxRed, PxBlue), CorruptFile}

\* largest number of sampled colours of the palette functions
MaxSamples == 14

\* the colours that the samples of the palette functions are drawn from, as
\* rgbToHex writes them
SampleColours == [i \in 1..Len(webColors) |->
                    rgbToHex(hexToRgb(webColors[i])[1], hexToRgb(webColors[i])[2],
                             hexToRgb(webColors[i])[3])]

\* samples with and without repeated colours: n colours taken from the
\* first m SampleColours, from position start on in steps of stride
PaletteSamples ==
    {[i \in 1..n |-> SampleColours[((start + i * stride) % m) + 1]] :
        n \in 0..MaxSamples, start \in 0..(Len(webColors) - 1), stride \in {1, 7},
        m \in {4, Len(webColors)}}

\* ------------------------------------------------------------------------
\* Results
\* ------------------------------------------------------------------------

NoColours ==
    [background |-> Black, text |-> Black, primary |-> Black,
     secondary |-> Black, accent |-> Black]

NoAnalysis ==
    [extractedText |-> <<>>, dominantColors |-> NoColours, colorPalette |-> <<>>,
     contrastRatio |-> Num(0), textReadability |-> Num(0), colorScore |-> Num(0),
     layoutScore |-> Num(0), visualHierarchy |-> Num(0), spacingScore |-> Num(0)]

\* a result: success, feedback.overallScore, feedback.analysis, and whether
\* the optional top-level analysis field is present
NoResult == [success |-> FALSE, hasAnalysis |-> FALSE, overallScore |-> Num(0), analysis |-> NoAnalysis]

\* AIDesignAnalyzer.getDefaultAnalysis()
getDefaultAnalysis ==
    [extractedText |-> <<>>,
     dominantColors |-> getDefaultColors,
     colorPalette |-> <<White, Hex("3","3","3","3","3","3"), Hex("0","0","7","B","F","F"),
                        Hex("6","C","7","5","7","D"), Hex("F","F","6","B","6","B")>>,
     contrastRatio |-> Num(0), textReadability |-> Num(0), colorScore |-> Num(0),
     layoutScore |-> Num(0), visualHierarchy |-> Num(0), spacingScore |-> Num(0)]

getFallbackResult_success ==
    [success |-> TRUE, hasAnalysis |-> FALSE, overallScore |-> Num(0), analysis |-> getDefaultAnalysis]

\* AIDesignAnalyzer.getFallbackResult()
getFallbackResult ==
    [success |-> FALSE, hasAnalysis |-> FALSE, overallScore |-> Num(0), analysis |-> getDefaultAnalysis]

\* AdvancedDesignAnalyzer.getFallbackResult()
getFallbackResultAdv ==
    [success |-> FALSE, hasAnalysis |-> FALSE, overallScore |-> Num(0),
     analysis |->
        [extractedText |-> <<>>,
         dominantColors |->
            [background |-> Hex("f","f","f","f","f","f"), text |-> Black, primary |-> Black,
             secondary |-> Hex("6","6","6","6","6","6"),
             accent |-> Hex("F","F","6","B","6","B")],
         colorPalette |-> <<Hex("f","f","f","f","f","f"), Black,
                            Hex("6","6","6","6","6","6"), Hex("F","F","6","B","6","B")>>,
         contrastRatio |-> Num(0), textReadability |-> Num(0), colorScore |-> Num(0),
         layoutScore |-> Num(0), visualHierarchy |-> Num(0), spacingScore |-> Num(0)]]

\* the canvas that document.createElement('canvas') returns
NoCanvas == [width |-> 300, height |-> 150]

NoText == [pending |-> FALSE, extractedText |-> <<>>, wordCount |-> 0, hasHeadings |-> FALSE]

NoLayout == [balance |-> Num(0), symmetry |-> Num(0), gridQuality |-> 0, visualWeight |-> Num(0)]

NoRun == [ran |-> FALSE, result |-> NoResult]

\* ------------------------------------------------------------------------
\* The colour functions applied to chosen colours
\* ------------------------------------------------------------------------

NoRatio == [num |-> 0, den |-> 1]

ColorIdle ==
    /\ hexA = Black /\ hexB = Black /\ cpc = "idle"
    /\ ratio = NoRatio /\ quantized = Black

LayoutIdle ==
    /\ limg = NoImage /\ quarters = <<0, 0, 0, 0>>
    /\ balance = Num(0) /\ symmetry = Num(0) /\ lpc = "idle"

RegionIdle ==
    /\ rimg = NoImage /\ rthreshold = 0 /\ rpc = "idle" /\ rseed = <<1, 1>>
    /\ rqueue = <<>> /\ rvisited = {} /\ rregion = {} /\ rgrown = <<>> /\ rregions = <<>>

FeedbackIdle ==
    /\ fbColors = getDefaultColors
    /\ fbContrast = [num |-> 1, den |-> 1]
    /\ fbpc = "idle"
    /\ uniqueStrengths = <<>>
    /\ uniqueSuggestions = <<>>

\* JavaScript values: undefined, numbers, strings, arrays and objects; n is
\* the number or the length, s the string
Undefined == [t |-> "undefined", n |-> 0, s |-> ""]

NoFile == "null"

NoUrl == "null"

NoFeedback == [overallScore |-> Undefined, designType |-> Undefined, strengths |-> Undefined,
               improvementSuggestions |-> Undefined, detailedAnalysis |-> Undefined]

NoCall == [key |-> "", value |-> <<>>]

\* the Upload component after mounting
UploadIdle ==
    /\ file = NoFile /\ previewUrl = NoUrl /\ isProcessing = FALSE /\ statusText = ""
    /\ upc = "form" /\ imageUrl = NoUrl /\ designId = 0 /\ parsedFeedback = NoFeedback
    /\ kvPending = NoCall /\ passed = {} /\ kvCalls = <<>> /\ kvStore = {}
    /\ timer = 0 /\ route = "" /\ runs = 0

RunInit ==
    /\ pc = "loadImage" /\ canvas = NoCanvas /\ region = 1 /\ draw = 0 /\ colors = <<>>
    /\ colorMap = <<>> /\ colorIndex = 0
    /\ textAnalysis = NoText /\ layoutAnalysis = NoLayout
    /\ dominantColors = NoColours /\ palette = <<>> /\ contrast = Num(0)
    /\ outcome = "pending" /\ result = NoResult

PipelineIdle ==
    /\ analyzer = "none" /\ image = CorruptFile /\ RunInit /\ firstRun = NoRun

InitColor ==
    /\ hexA \in ColourInputs
    /\ hexB \in ColourInputs
    /\ cpc = "args"
    /\ ratio = NoRatio
    /\ quantized = Black
    /\ LayoutIdle
    /\ PipelineIdle
    /\ RegionIdle
    /\ FeedbackIdle
    /\ UploadIdle

CallContrastRatio ==
    /\ cpc = "args"
    /\ ratio' = calculateContrastRatio(hexA, hexB)
    /\ cpc' = "contrast"
    /\ UNCHANGED <<hexA, hexB, quantized, layoutVars, pipelineVars, regionVars, feedbackVars, uploadVars>>

CallQuantize ==
    /\ cpc = "args"
    /\ quantized' = quantizeToWebColors(hexA)
    /\ cpc' = "quantized"
    /\ UNCHANGED <<hexA, hexB, ratio, layoutVars, pipelineVars, regionVars, feedbackVars, uploadVars>>

NextColor == CallContrastRatio \/ CallQuantize

SpecColor == InitColor /\ [][NextColor]_vars

\* ------------------------------------------------------------------------
\* analyzeLayout applied to chosen images and weight vectors
\* ------------------------------------------------------------------------

InitLayout ==
    /\ ColorIdle
    /\ PipelineIdle
    /\ RegionIdle
    /\ FeedbackIdle
    /\ UploadIdle
    /\ balance = Num(0)
    /\ symmetry = Num(0)
    /\ \/ /\ limg \in LayoutImages
          /\ quarters = <<0, 0, 0, 0>>
          /\ lpc = "image"
       \/ /\ limg = NoImage
          /\ quarters \in (0..MaxWeight) \X (0..MaxWeight) \X (0..MaxWeight) \X (0..MaxWeight)
          /\ lpc = "weights"

AnalyzeVisualWeight ==
    /\ lpc = "image"
    /\ quarters' = analyzeVisualWeight(limg)
    /\ lpc' = "weights"
    /\ UNCHANGED <<limg, balance, symmetry, colorVars, pipelineVars, regionVars, feedbackVars, uploadVars>>

CalculateBalance ==
    /\ lpc = "weights"
    /\ balance' = calculateBalance(quarters)
    /\ lpc' = "balanced"
    /\ UNCHANGED <<limg, quarters, symmetry, colorVars, pipelineVars, regionVars, feedbackVars, uploadVars>>

CalculateSymmetry ==
    /\ lpc = "balanced"
    /\ symmetry' = calculateSymmetry(quarters)
    /\ lpc' = "done"
    /\ UNCHANGED <<limg, quarters, balance, colorVars, pipelineVars, regionVars, feedbackVars, uploadVars>>

NextLayout == AnalyzeVisualWeight \/ CalculateBalance \/ CalculateSymmetry

SpecLayout == InitLayout /\ [][NextLayout]_vars

\* ------------------------------------------------------------------------
\* analyzeDesign: texts
\* ------------------------------------------------------------------------
\* A text is a sequence of lines, a line a sequence of words separated by
\* single spaces, and a word is represented by its length.

RECURSIVE SumSeq(_)
SumSeq(s) == IF s = <<>> THEN 0 ELSE Head(s) + SumSeq(Tail(s))

\* text.split(/\s+/).filter(word => word.length > 0).length
WordCount(text) == SumSeq([i \in 1..Len(text) |-> Len(text[i])])

\* line.length
LineLength(line) == IF line = <<>> THEN 0 ELSE SumSeq(line) + Len(line) - 1

\* detectHeadings(text)
detectHeadings(text) ==
    \E i \in 1..Len(text) :
        /\ LineLength(text[i]) > 0
        /\ Len(text[i]) <= 8
        /\ LineLength(text[i]) < 50

\* "Advanced analysis of design composition and visual elements"
AnalysisText == <<<<8, 8, 2, 6, 11, 3, 6, 8>>>>

\* "Visual design detected. Consider adding text content for better communication."
NoRegionsText == <<<<6, 6, 9, 8, 6, 4, 7, 3, 6, 14>>>>

\* the textTemplates of simulateTextFromRegions
textTemplates ==
    << <<<<5, 6, 6, 4, 4, 6, 9, 3, 8, 12>>>>,
       <<<<12, 6, 4, 5, 11, 12, 3, 9, 11>>>>,
       <<<<12, 6, 9, 9, 3, 2, 5, 5, 3, 11>>>>,
       <<<<13, 6, 4, 8, 2, 13, 3, 6, 7>>>> >>

\* the analysis that analyzeText builds from a text
TextAnalysisOf(text) ==
    [pending |-> FALSE, extractedText |-> text, wordCount |-> WordCount(text),
     hasHeadings |-> detectHeadings(text)]

\* analyzeText is waiting for the TextDetector
PendingText == [pending |-> TRUE, extractedText |-> <<>>, wordCount |-> 0, hasHeadings |-> FALSE]

\* number of words of the long text that a TextDetector may report
MaxWords == 40

\* texts that a TextDetector may report: none, a short heading, a heading
\* above a paragraph, one long line
DetectedTexts ==
    {<<>>, <<<<4>>>>, <<<<7, 4>>, <<3, 5, 2, 6, 4, 3, 9, 5, 2, 7>>>>,
     <<[i \in 1..MaxWords |-> 5]>>}

\* advancedCanvasTextDetection(); k is the draw of simulateTextFromRegions
advancedCanvasTextDetection(img, k) ==
    IF detectTextRegions(img) = <<>> THEN NoRegionsText
    ELSE textTemplates[FloorRandom(k, Len(textTemplates)) + 1]

\* ------------------------------------------------------------------------
\* AIDesignAnalyzer.analyzeDesign
\* ------------------------------------------------------------------------

AnalyzerIdle == ColorIdle /\ LayoutIdle /\ RegionIdle /\ FeedbackIdle /\ UploadIdle

\* the regions of sampleStrategicRegions, in hundredths of width and height
regions ==
    <<[x |-> 0, y |-> 0, w |-> 30, h |-> 20],
      [x |-> 35, y |-> 0, w |-> 30, h |-> 15],
      [x |-> 20, y |-> 30, w |-> 60, h |-> 40],
      [x |-> 0, y |-> 80, w |-> 100, h |-> 20],
      [x |-> 80, y |-> 0, w |-> 20, h |-> 100]>>

\* Math.floor(start + Math.random() * extent) for the draw k, start and
\* extent being the given hundredths of size
SamplePosition(size, start, extent, k) ==
    (size * (start * RandSteps + k * extent)) \div (100 * RandSteps)

\* AIDesignAnalyzer.setupCanvas(image): the canvas takes the size of the image
setupCanvas(img) == {[width |-> img.width, height |-> img.height]}

\* the integer part of side * scale, scale being the double nearest to
\* 800 / longer: when side * 800 / longer is an integer the product may fall
\* just below it
ScaledSides(side, longer) ==
    LET exact == (side * 800) \div longer
    IN  IF (side * 800) % longer = 0 /\ exact > 0 THEN {exact, exact - 1} ELSE {exact}

\* AdvancedDesignAnalyzer.setupCanvas(image): canvas.width = image.width *
\* scale and canvas.height = image.height * scale with scale =
\* Math.min(1, 800 / Math.max(width, height)); the canvas keeps the integer
\* part
setupCanvasAdv(img) ==
    LET longer == Max2(img.width, img.height)
    IN  IF longer <= 800 THEN {[width |-> img.width, height |-> img.height]}
        ELSE {[width |-> w, height |-> h] :
                 w \in ScaledSides(img.width, longer), h \in ScaledSides(img.height, longer)}

\* ctx.getImageData(0, 0, canvas.width, canvas.height) throws an IndexSizeError
\* when the width or the height of the canvas is 0
getImageDataThrows(cv) == cv.width = 0 \/ cv.height = 0

\* loadImage, setupCanvas and drawImage; a file that does not decode rejects
\* loadImage and the catch block returns the fallback result
LoadImage ==
    /\ pc = "loadImage"
    /\ analyzer \in {"AI", "Advanced"}
    /\ IF image.decodable
       THEN /\ canvas' \in (IF analyzer = "AI" THEN setupCanvas(image) ELSE setupCanvasAdv(image))
            /\ pc' = IF analyzer = "AI" THEN "sampleStrategicRegions" ELSE "analyzeText"
            /\ UNCHANGED <<outcome, result>>
       ELSE /\ pc' = "done"
            /\ outcome' = "resolved"
            /\ result' = IF analyzer = "AI" THEN getFallbackResult ELSE getFallbackResultAdv
            /\ UNCHANGED canvas
    /\ UNCHANGED <<analyzer, image, region, draw, colors, colorMap, colorIndex, textAnalysis,
                   layoutAnalysis, dominantColors, palette, contrast, firstRun,
                   colorVars, layoutVars, regionVars, feedbackVars, uploadVars>>

\* one iteration of the loop of sampleStrategicRegions
SampleRegion ==
    /\ pc = "sampleStrategicRegions"
    /\ \E kx \in RandomDraws, ky \in RandomDraws :
          LET r == regions[region]
              x == SamplePosition(image.width, r.x, r.w, kx)
              y == SamplePosition(image.height, r.y, r.h, ky)
              p == PixelAt(image, x, y)
          IN  /\ colors' = IF x < image.width /\ y < image.height
                              /\ p[4] > 128 /\ ~isGray(p[1], p[2], p[3])
                           THEN Append(colors, rgbToHex(p[1], p[2], p[3]))
                           ELSE colors
    /\ IF draw + 1 < DrawsPerRegion
       THEN draw' = draw + 1 /\ UNCHANGED <<region, pc>>
       ELSE /\ draw' = 0
            /\ IF region < Len(regions)
               THEN region' = region + 1 /\ UNCHANGED pc
               ELSE pc' = "extractColors" /\ UNCHANGED region
    /\ UNCHANGED <<analyzer, image, canvas, colorMap, colorIndex, textAnalysis, layoutAnalysis,
                   dominantColors, palette, contrast, outcome, result, firstRun,
                   colorVars, layoutVars, regionVars, feedbackVars, uploadVars>>

\* the rest of extractRealColorsAdvanced; k is the draw of
\* generateVibrantColor
ExtractColors ==
    /\ pc = "extractColors"
    /\ \E k \in RandomDraws :
          dominantColors' =
              calculateAdvancedDominantColors(
                  colors, vibrantColors[FloorRandom(k, Len(vibrantColors)) + 1])
    /\ palette' = Take(createAdvancedPalette(colors), 12)
    /\ contrast' = Frac(calculateContrastRatio(dominantColors'.background,
                                               dominantColors'.text).num,
                        calculateContrastRatio(dominantColors'.background,
                                               dominantColors'.text).den)
    /\ pc' = "scores"
    /\ UNCHANGED <<analyzer, image, canvas, region, draw, colors, colorMap, colorIndex, textAnalysis,
                   layoutAnalysis, outcome, result, firstRun, colorVars, layoutVars, regionVars, feedbackVars, uploadVars>>

\* the analysis record, the overall score and the return of analyzeDesign
\* (the feedback texts are no part of the metrics and are left out)
ComputeScores ==
    /\ pc = "scores"
    /\ \E kh \in RandomDraws, ks \in RandomDraws :
          LET textReadability == calculateReadabilityScore(contrast)
              colorScore == calculateAdvancedColorScore(palette, dominantColors)
              layoutScore == analyzeLayoutAI(image.width, image.height)
              visualHierarchy == 65 + FloorRandom(kh, 30)
              spacingScore == 70 + FloorRandom(ks, 25)
          IN  /\ result' =
                    [success |-> TRUE,
                     hasAnalysis |-> TRUE,
                     overallScore |-> Num(OverallAverage(textReadability, colorScore,
                                                         layoutScore, visualHierarchy,
                                                         spacingScore)),
                     analysis |->
                        [extractedText |-> AnalysisText,
                         dominantColors |-> dominantColors,
                         colorPalette |-> palette,
                         contrastRatio |-> contrast,
                         textReadability |-> Num(textReadability),
                         colorScore |-> Num(colorScore),
                         layoutScore |-> Num(layoutScore),
                         visualHierarchy |-> Num(visualHierarchy),
                         spacingScore |-> Num(spacingScore)]]
    /\ outcome' = "resolved"
    /\ pc' = "done"
    /\ UNCHANGED <<analyzer, image, canvas, region, draw, colors, colorMap, colorIndex, textAnalysis,
                   layoutAnalysis, dominantColors, palette, contrast, firstRun,
                   colorVars, layoutVars, regionVars, feedbackVars, uploadVars>>

\* ------------------------------------------------------------------------
\* AdvancedDesignAnalyzer.analyzeDesign
\* ------------------------------------------------------------------------
\* Promise.all calls analyzeText, analyzeColors, analyzeLayout and
\* analyzeContrast in this order; only analyzeText suspends. The images of the
\* model whose canvas has pixels are at most 800 pixels wide and high, so the
\* canvas holds the pixels of the image.

\* fallbackTextAnalysis(): "Visual design analysis completed. Focus on layout
\* and aesthetic qualities." with the fixed wordCount 8
fallbackTextAnalysis ==
    [pending |-> FALSE, extractedText |-> <<<<6, 6, 8, 10, 5, 2, 6, 3, 9, 10>>>>,
     wordCount |-> 8, hasHeadings |-> FALSE]

\* the analysis of analyzeText without a TextDetector: getImageData throws
\* inside extractTextWithOCR and the catch block of analyzeText answers
canvasTextAnalysis(img, cv, k) ==
    IF getImageDataThrows(cv) THEN fallbackTextAnalysis
    ELSE TextAnalysisOf(advancedCanvasTextDetection(img, k))

\* analyzeText up to its first suspension: without a TextDetector the canvas
\* text detection runs at once
AnalyzeText ==
    /\ pc = "analyzeText"
    /\ \/ textAnalysis' = PendingText
       \/ \E k \in RandomDraws :
             textAnalysis' = canvasTextAnalysis(image, canvas, k)
    /\ pc' = "analyzeColors"
    /\ UNCHANGED <<analyzer, image, canvas, region, draw, colors, colorMap, colorIndex,
                   layoutAnalysis, dominantColors, palette, contrast, outcome, result,
                   firstRun, colorVars, layoutVars, regionVars, feedbackVars, uploadVars>>

sampleSize == 5000

\* step of analyzeColors: Math.floor((data.length / 4) / sampleSize)
SampleStep(img) == (img.width * img.height) \div sampleSize

\* one iteration of the sampling loop of analyzeColors; colorIndex is i / 4.
\* An iteration with step 0 changes nothing but a count: the model follows
\* MaxStuckIterations of them.
AnalyzeColorsStep ==
    /\ pc = "analyzeColors"
    /\ ~getImageDataThrows(canvas)
    /\ colorIndex < image.width * image.height
    /\ Len(colorMap) < sampleSize
    /\ SampleStep(image) > 0
          \/ \A i \in 1..Len(colorMap) : colorMap[i].count < MaxStuckIterations
    /\ LET p == DataAt(image, colorIndex)
       IN  colorMap' = MapIncrement(colorMap, quantizeColor(p[1], p[2], p[3]))
    /\ colorIndex' = colorIndex + SampleStep(image)
    /\ UNCHANGED <<analyzer, image, canvas, pc, region, draw, colors, textAnalysis, layoutAnalysis,
                   dominantColors, palette, contrast, outcome, result, firstRun,
                   colorVars, layoutVars, regionVars, feedbackVars, uploadVars>>

\* the colours of the entries of a colorMap
ColorsOf(entries) == [i \in 1..Len(entries) |-> entries[i].color]

\* analyzeColors after its loop
AnalyzeColorsFinish ==
    /\ pc = "analyzeColors"
    /\ ~getImageDataThrows(canvas)
    /\ ~(colorIndex < image.width * image.height /\ Len(colorMap) < sampleSize)
    /\ LET sortedColors == Take(SortByCount(colorMap), 8)
       IN  /\ palette' = ColorsOf(sortedColors)
           /\ dominantColors' = calculateDominantColors(sortedColors)
    /\ pc' = "analyzeLayout"
    /\ UNCHANGED <<analyzer, image, canvas, region, draw, colors, colorMap, colorIndex, textAnalysis,
                   layoutAnalysis, contrast, outcome, result, firstRun,
                   colorVars, layoutVars, regionVars, feedbackVars, uploadVars>>

\* getImageData throws in analyzeColors: its promise rejects
AnalyzeColorsThrow ==
    /\ pc = "analyzeColors"
    /\ getImageDataThrows(canvas)
    /\ pc' = "analyzeLayout"
    /\ UNCHANGED <<analyzer, image, canvas, region, draw, colors, colorMap, colorIndex, textAnalysis,
                   layoutAnalysis, dominantColors, palette, contrast, outcome, result,
                   firstRun, colorVars, layoutVars, regionVars, feedbackVars, uploadVars>>

\* AdvancedDesignAnalyzer.analyzeLayout(); when getImageData throws its
\* promise rejects
AnalyzeLayout ==
    /\ pc = "analyzeLayout"
    /\ IF getImageDataThrows(canvas) THEN UNCHANGED layoutAnalysis
       ELSE LET weights == analyzeVisualWeight(image)
            IN  layoutAnalysis' =
                   [balance |-> calculateBalance(weights),
                    symmetry |-> calculateSymmetry(weights),
                    gridQuality |-> analyzeGridAlignment(image),
                    visualWeight |-> calculateVisualWeight(weights)]
    /\ pc' = "analyzeContrast"
    /\ UNCHANGED <<analyzer, image, canvas, region, draw, colors, colorMap, colorIndex, textAnalysis,
                   dominantColors, palette, contrast, outcome, result, firstRun,
                   colorVars, layoutVars, regionVars, feedbackVars, uploadVars>>

\* the contrast of one sample of sampleContrast for the draws kx1, ky1, kx2,
\* ky2; NaN when a sampled position lies outside the data
SampleContrastOf(img, kx1, ky1, kx2, ky2) ==
    LET lum1 == LuminanceAt(img, FloorRandom(ky1, img.height - 10) * img.width
                                     + FloorRandom(kx1, img.width - 10))
        lum2 == LuminanceAt(img, FloorRandom(ky2, img.height - 10) * img.width
                                     + FloorRandom(kx2, img.width - 10))
    IN  IF lum1.nan \/ lum2.nan THEN NaN
        ELSE Frac(Max2(lum1.num, lum2.num) + ContrastOffset,
                  Min2(lum1.num, lum2.num) + ContrastOffset)

\* the contrasts that one sample can have
SampleContrasts(img) ==
    {SampleContrastOf(img, kx1, ky1, kx2, ky2) :
        kx1 \in RandomDraws, ky1 \in RandomDraws, kx2 \in RandomDraws, ky2 \in RandomDraws}

samplePoints == 100

\* the numbers of samples, out of samplePoints, whose two pixels differ
MixedSamples == {0, 37, samplePoints}

\* calculateOverallContrast for m samples of contrast c and samplePoints - m
\* samples of two equal pixels (contrast 1)
calculateOverallContrast(m, c) ==
    IF m > 0 /\ c.nan THEN NaN
    ELSE IF m = 0 THEN Num(1)
    ELSE LET avg == Frac(m * c.num + (samplePoints - m) * c.den, samplePoints * c.den)
         IN  IF avg.num > 21 * avg.den THEN Num(21)
             ELSE IF avg.num < avg.den THEN Num(1) ELSE avg

\* AdvancedDesignAnalyzer.analyzeContrast(): overallContrast; when
\* getImageData throws its promise rejects
AnalyzeContrast ==
    /\ pc = "analyzeContrast"
    /\ IF getImageDataThrows(canvas) THEN UNCHANGED contrast
       ELSE \E m \in MixedSamples, c \in SampleContrasts(image) :
               contrast' = calculateOverallContrast(m, c)
    /\ pc' = "awaitAll"
    /\ UNCHANGED <<analyzer, image, canvas, region, draw, colors, colorMap, colorIndex, textAnalysis,
                   layoutAnalysis, dominantColors, palette, outcome, result, firstRun,
                   colorVars, layoutVars, regionVars, feedbackVars, uploadVars>>

AwaitAll_noWait ==
    /\ pc = "awaitAll"
    /\ ~getImageDataThrows(canvas)
    /\ pc' = "calculateScores"
    /\ UNCHANGED <<analyzer, image, canvas, region, draw, colors, colorMap, colorIndex, textAnalysis,
                   layoutAnalysis, dominantColors, palette, contrast, outcome, result,
                   firstRun, colorVars, layoutVars, regionVars, feedbackVars, uploadVars>>

\* await Promise.all: analyzeText completes with the text of the detector or,
\* when the detector fails, with the canvas text detection
AwaitAll ==
    /\ pc = "awaitAll"
    /\ ~getImageDataThrows(canvas)
    /\ IF textAnalysis.pending
       THEN \/ \E text \in DetectedTexts : textAnalysis' = TextAnalysisOf(text)
            \/ \E k \in RandomDraws :
                  textAnalysis' = canvasTextAnalysis(image, canvas, k)
       ELSE UNCHANGED textAnalysis
    /\ pc' = "calculateScores"
    /\ UNCHANGED <<analyzer, image, canvas, region, draw, colors, colorMap, colorIndex,
                   layoutAnalysis, dominantColors, palette, contrast, outcome, result,
                   firstRun, colorVars, layoutVars, regionVars, feedbackVars, uploadVars>>

\* await Promise.all throws as soon as one of the analyses has rejected: the
\* catch block of analyzeDesign returns the fallback result, and the result of
\* an analyzeText still in flight is dropped
AwaitAllRejected ==
    /\ pc = "awaitAll"
    /\ getImageDataThrows(canvas)
    /\ result' = getFallbackResultAdv
    /\ outcome' = "resolved"
    /\ pc' = "done"
    /\ UNCHANGED <<analyzer, image, canvas, region, draw, colors, colorMap, colorIndex, textAnalysis,
                   layoutAnalysis, dominantColors, palette, contrast, firstRun,
                   colorVars, layoutVars, regionVars, feedbackVars, uploadVars>>

\* a score in hundredths (den is 1 or 100)
Hundredths(s) == s.num * (100 \div s.den)

\* Math.round(tr * 0.2 + cs * 0.25 + ls * 0.3 + vh * 0.15 + ss * 0.1) with
\* ls = layoutSum / 3 and vh in hundredths
WeightedOverall(textReadability, colorScore, layoutSum, visualHundredths, spacingScore) ==
    RoundFrac(2000 * textReadability + 2500 * colorScore + 1000 * layoutSum
                  + 15 * visualHundredths + 1000 * spacingScore,
              10000)

\* calculateScores(textAnalysis, colorAnalysis, layoutAnalysis, contrastAnalysis)
calculateScores(text, colorPalette, layout) ==
    LET textReadability == Min2(100, text.wordCount * 2 + (IF text.hasHeadings THEN 30 ELSE 10))
        colorScore == calculateColorScore(colorPalette)
        undefinedLayout == layout.balance.nan \/ layout.symmetry.nan
        layoutSum == layout.balance.num + layout.symmetry.num + layout.gridQuality
    IN  [overall |-> IF undefinedLayout THEN NaN
                     ELSE Num(WeightedOverall(textReadability, colorScore, layoutSum,
                                              Hundredths(layout.visualWeight),
                                              layout.gridQuality)),
         textReadability |-> Num(textReadability),
         colorScore |-> Num(colorScore),
         layoutScore |-> IF undefinedLayout THEN NaN ELSE Frac(layoutSum, 3),
         visualHierarchy |-> layout.visualWeight,
         spacingScore |-> Num(layout.gridQuality)]

\* calculateScores and the analysis record
CalculateScores ==
    /\ pc = "calculateScores"
    /\ LET scores == calculateScores(textAnalysis, palette, layoutAnalysis)
       IN  result' =
              [success |-> TRUE,
               hasAnalysis |-> TRUE,
               overallScore |-> scores.overall,
               analysis |->
                  [extractedText |-> textAnalysis.extractedText,
                   dominantColors |-> dominantColors,
                   colorPalette |-> palette,
                   contrastRatio |-> contrast,
                   textReadability |-> scores.textReadability,
                   colorScore |-> scores.colorScore,
                   layoutScore |-> scores.layoutScore,
                   visualHierarchy |-> scores.visualHierarchy,
                   spacingScore |-> scores.spacingScore]]
    /\ pc' = "generateAIFeedback"
    /\ UNCHANGED <<analyzer, image, canvas, region, draw, colors, colorMap, colorIndex, textAnalysis,
                   layoutAnalysis, dominantColors, palette, contrast, outcome,
                   firstRun, colorVars, layoutVars, regionVars, feedbackVars, uploadVars>>

\* generateAIFeedback settles (with the parsed response or, after a failed
\* request, with the fallback feedback) and analyzeDesign returns; the
\* feedback texts are no part of the metrics and are left out
GenerateAIFeedback ==
    /\ pc = "generateAIFeedback"
    /\ outcome' = "resolved"
    /\ pc' = "done"
    /\ UNCHANGED <<analyzer, image, canvas, region, draw, colors, colorMap, colorIndex, textAnalysis,
                   layoutAnalysis, dominantColors, palette, contrast, result,
                   firstRun, colorVars, layoutVars, regionVars, feedbackVars, uploadVars>>

\* ------------------------------------------------------------------------
\* The analyses of the two analyzers
\* ------------------------------------------------------------------------

Init ==
    /\ AnalyzerIdle
    /\ \/ analyzer = "AI" /\ image \in AIFiles
       \/ analyzer = "Advanced" /\ image \in AdvancedFiles
    /\ RunInit
    /\ firstRun = NoRun

Next ==
    \/ LoadImage
    \/ SampleRegion
    \/ ExtractColors
    \/ ComputeScores
    \/ AnalyzeText
    \/ AnalyzeColorsStep
    \/ AnalyzeColorsFinish
    \/ AnalyzeColorsThrow
    \/ AnalyzeLayout
    \/ AnalyzeContrast
    \/ AwaitAll
    \/ AwaitAllRejected
    \/ CalculateScores
    \/ GenerateAIFeedback

Spec == Init /\ [][Next]_vars

\* ------------------------------------------------------------------------
\* Two analyses of the same image
\* ------------------------------------------------------------------------

InitTwice ==
    /\ AnalyzerIdle
    /\ analyzer = "AI"
    /\ image \in TwiceFiles
    /\ RunInit
    /\ firstRun = NoRun

\* analyzeDesign is called again on the same image: the call starts from
\* fresh locals; the previous result stays with the caller
RunAgain ==
    /\ pc = "done"
    /\ ~firstRun.ran
    /\ firstRun' = [ran |-> TRUE, result |-> result]
    /\ pc' = "loadImage" /\ canvas' = NoCanvas /\ region' = 1 /\ draw' = 0 /\ colors' = <<>>
    /\ colorMap' = <<>> /\ colorIndex' = 0
    /\ textAnalysis' = NoText /\ layoutAnalysis' = NoLayout
    /\ dominantColors' = NoColours /\ palette' = <<>> /\ contrast' = Num(0)
    /\ outcome' = "pending" /\ result' = NoResult
    /\ UNCHANGED <<analyzer, image, colorVars, layoutVars, regionVars, feedbackVars, uploadVars>>

NextTwice == LoadImage \/ SampleRegion \/ ExtractColors \/ ComputeScores \/ RunAgain

SpecTwice == InitTwice /\ [][NextTwice]_vars

\* ------------------------------------------------------------------------
\* The palette functions applied to chosen samples
\* ------------------------------------------------------------------------

\* the colorMap of analyzeColors after its loop over the given pixel colours
RECURSIVE CountColors(_)
CountColors(pixels) ==
    IF pixels = <<>> THEN <<>>
    ELSE LET p == hexToRgb(pixels[Len(pixels)])
         IN  MapIncrement(CountColors(SubSeq(pixels, 1, Len(pixels) - 1)),
                          quantizeColor(p[1], p[2], p[3]))

InitPalette ==
    /\ AnalyzerIdle
    /\ analyzer \in {"AI", "Advanced"}
    /\ image = CorruptFile
    /\ colors \in PaletteSamples
    /\ pc = "palette"
    /\ canvas = NoCanvas /\ region = 1 /\ draw = 0 /\ colorMap = <<>> /\ colorIndex = 0
    /\ textAnalysis = NoText /\ layoutAnalysis = NoLayout
    /\ dominantColors = NoColours /\ palette = <<>> /\ contrast = Num(0)
    /\ outcome = "pending" /\ result = NoResult
    /\ firstRun = NoRun

\* the palette of extractRealColorsAdvanced for the sampled colours
BuildPaletteAI ==
    /\ pc = "palette"
    /\ analyzer = "AI"
    /\ palette' = Take(createAdvancedPalette(colors), 12)
    /\ pc' = "built"
    /\ UNCHANGED <<analyzer, image, canvas, region, draw, colors, colorMap, colorIndex, textAnalysis,
                   layoutAnalysis, dominantColors, contrast, outcome, result, firstRun,
                   colorVars, layoutVars, regionVars, feedbackVars, uploadVars>>

\* the palette of analyzeColors for the sampled pixel colours
BuildPaletteAdvanced ==
    /\ pc = "palette"
    /\ analyzer = "Advanced"
    /\ colorMap' = CountColors(colors)
    /\ palette' = ColorsOf(Take(SortByCount(colorMap'), 8))
    /\ pc' = "built"
    /\ UNCHANGED <<analyzer, image, canvas, region, draw, colors, colorIndex, textAnalysis,
                   layoutAnalysis, dominantColors, contrast, outcome, result, firstRun,
                   colorVars, layoutVars, regionVars, feedbackVars, uploadVars>>

NextPalette == BuildPaletteAI \/ BuildPaletteAdvanced

SpecPalette == InitPalette /\ [][NextPalette]_vars

\* ------------------------------------------------------------------------
\* The dominant-colour functions applied to chosen samples
\* ------------------------------------------------------------------------

\* n copies of the colour c
Run(c, n) == [i \in 1..n |-> c]

\* colours that sampleStrategicRegions can return (none of them gray), as
\* rgbToHex writes them: red, blue, two light colours, a green and a red
\* that is no reference colour
SampledPool ==
    {rgbToHex(255, 0, 0), rgbToHex(0, 0, 255), rgbToHex(255, 107, 107),
     rgbToHex(255, 234, 167), rgbToHex(46, 204, 113), rgbToHex(250, 10, 10)}

\* the reference colours that are not gray, as rgbToHex writes them
DistinctPool == SubSeq(SampleColours, 1, 24)

\* samples of AIDesignAnalyzer: up to three colours with different counts,
\* samples of more than ten different colours, and such samples with the
\* colour sampled last sampled twice
SampledColours ==
    {Run(a, i) \o Run(b, j) \o Run(c, k) :
        a \in SampledPool, b \in SampledPool, c \in SampledPool,
        i \in 0..3, j \in 0..2, k \in 0..1}
    \cup {[i \in 1..n |-> DistinctPool[((start + i * 5) % Len(DistinctPool)) + 1]] :
            n \in 11..MaxSamples, start \in 0..(Len(DistinctPool) - 1)}
    \cup {Append([i \in 1..n |-> DistinctPool[((start + i * 5) % Len(DistinctPool)) + 1]],
                  DistinctPool[((start + n * 5) % Len(DistinctPool)) + 1]) :
            n \in 11..(MaxSamples - 1), start \in 0..(Len(DistinctPool) - 1)}

\* pixel colours of AdvancedDesignAnalyzer: white, black, red, blue and two
\* grays of medium luminance
PixelPool ==
    {rgbToHex(255, 255, 255), rgbToHex(0, 0, 0), rgbToHex(255, 0, 0),
     rgbToHex(0, 0, 255), rgbToHex(128, 128, 128), rgbToHex(187, 187, 187)}

SampledPixels3 ==
    {Run(a, i) \o Run(b, j) \o Run(c, k) :
        a \in PixelPool, b \in PixelPool, c \in PixelPool,
        i \in 0..3, j \in 0..2, k \in 0..1}

\* extractRealColorsAdvanced after sampling, analyzeColors after its loop
InitDominant ==
    /\ AnalyzerIdle
    /\ image = CorruptFile
    /\ \/ /\ analyzer = "AI"
          /\ colors \in SampledColours
          /\ colorMap = <<>>
          /\ pc = "extractColors"
       \/ /\ analyzer = "Advanced"
          /\ colors \in SampledPixels3
          /\ colorMap = CountColors(colors)
          /\ pc = "analyzeColors"
    /\ canvas = NoCanvas /\ region = 1 /\ draw = 0 /\ colorIndex = 0
    /\ textAnalysis = NoText /\ layoutAnalysis = NoLayout
    /\ dominantColors = NoColours /\ palette = <<>> /\ contrast = Num(0)
    /\ outcome = "pending" /\ result = NoResult
    /\ firstRun = NoRun

NextDominant == ExtractColors \/ AnalyzeColorsFinish

SpecDominant == InitDominant /\ [][NextDominant]_vars


\* ------------------------------------------------------------------------
\* setupCanvas applied to images of chosen sizes
\* ------------------------------------------------------------------------

\* widths and heights below, at and above the cap of 800 pixels
CanvasSides == {1, 2, 49, 400, 799, 800, 801, 1000, 1600, 4000}

CanvasFiles == {ImageFile(w, h, PxWhite, PxWhite) : w \in CanvasSides, h \in CanvasSides}

InitCanvas ==
    /\ AnalyzerIdle
    /\ analyzer \in {"AI", "Advanced"}
    /\ image \in CanvasFiles
    /\ RunInit
    /\ firstRun = NoRun

NextCanvas == LoadImage

SpecCanvas == InitCanvas /\ [][NextCanvas]_vars

\* ------------------------------------------------------------------------
\* detectTextRegions and growTextRegion, one loop iteration per step
\* ------------------------------------------------------------------------

\* the images given to detectTextRegions
RegionImages ==
    {[width |-> s[1], height |-> s[2], split |-> IF c[1] = c[2] THEN 0 ELSE s[1] \div 2,
      left |-> c[1], right |-> c[2]] :
        s \in {<<2, 4>>, <<3, 3>>, <<5, 5>>, <<8, 5>>, <<8, 6>>, <<7, 7>>},
        c \in {<<PxWhite, PxWhite>>, <<PxBlack, PxWhite>>, <<PxWhite, PxBlack>>, <<PxRed, PxBlue>>}}

\* the thresholds given to isPixelEdge and growTextRegion: the 50 that
\* detectTextRegions passes and, for growTextRegion to grow a region at all,
\* the threshold 0 that every difference of luminance exceeds
RegionThresholds == {50, 0}

InitRegion ==
    /\ ColorIdle
    /\ LayoutIdle
    /\ PipelineIdle
    /\ FeedbackIdle
    /\ UploadIdle
    /\ rimg \in RegionImages
    /\ rthreshold \in RegionThresholds
    /\ rpc = "seed"
    /\ rseed = <<1, 1>>
    /\ rqueue = <<>> /\ rvisited = {} /\ rregion = {} /\ rgrown = <<>> /\ rregions = <<>>

AlreadyVisited_perRegion(index) == index \in rregion

\* visited.has(index)
AlreadyVisited(index) == index \in rvisited

\* one test of the loop conditions and one iteration of the inner loop of
\* detectTextRegions, up to the call of growTextRegion
DetectSeed ==
    /\ rpc = "seed"
    /\ LET x == rseed[1]
           y == rseed[2]
       IN  IF y >= rimg.height - 1
           THEN rpc' = "done" /\ UNCHANGED <<rseed, rqueue, rregion>>
           ELSE IF x >= rimg.width - 1
           THEN rseed' = <<1, y + 3>> /\ UNCHANGED <<rpc, rqueue, rregion>>
           ELSE IF AlreadyVisited((y * rimg.width + x) * 4)
                      \/ ~isPixelEdge(rimg, x, y, rthreshold)
           THEN rseed' = <<x + 3, y>> /\ UNCHANGED <<rpc, rqueue, rregion>>
           ELSE /\ rpc' = "grow"
                /\ rqueue' = <<rseed>>
                /\ rregion' = {}
                /\ UNCHANGED rseed
    /\ UNCHANGED <<rimg, rthreshold, rvisited, rgrown, rregions,
                   colorVars, layoutVars, pipelineVars, feedbackVars, uploadVars>>

\* one iteration of the while loop of growTextRegion
GrowStep ==
    /\ rpc = "grow"
    /\ rqueue # <<>>
    /\ LET x == Head(rqueue)[1]
           y == Head(rqueue)[2]
           index == (y * rimg.width + x) * 4
       IN  IF AlreadyVisited(index) \/ x < 0 \/ x >= rimg.width \/ y < 0 \/ y >= rimg.height
           THEN rqueue' = Tail(rqueue) /\ UNCHANGED <<rvisited, rregion>>
           ELSE /\ rvisited' = rvisited \cup {index}
                /\ rregion' = rregion \cup {index}
                /\ rqueue' = Tail(rqueue) \o PushedNeighbours(rimg, x, y, rvisited \cup {index},
                                                              rthreshold, 1)
    /\ UNCHANGED <<rimg, rthreshold, rpc, rseed, rgrown, rregions,
                   colorVars, layoutVars, pipelineVars, feedbackVars, uploadVars>>

\* growTextRegion returns region; detectTextRegions keeps it if it is large
\* enough and goes on with the next seed
GrowReturn ==
    /\ rpc = "grow"
    /\ rqueue = <<>>
    /\ rgrown' = Append(rgrown, rregion)
    /\ rregions' = IF Cardinality(rregion) > 10 THEN Append(rregions, rregion) ELSE rregions
    /\ rregion' = {}
    /\ rseed' = <<rseed[1] + 3, rseed[2]>>
    /\ rpc' = "seed"
    /\ UNCHANGED <<rimg, rthreshold, rqueue, rvisited, colorVars, layoutVars, pipelineVars, feedbackVars, uploadVars>>

NextRegion == DetectSeed \/ GrowStep \/ GrowReturn

\* every started loop iteration is completed
SpecRegion == InitRegion /\ [][NextRegion]_vars /\ WF_vars(NextRegion)
\* ------------------------------------------------------------------------
\* AIDesignAnalyzer: the feedback texts
\* ------------------------------------------------------------------------

\* generateLayoutFeedback: layoutStrengths
layoutStrengths ==
    <<"The layout has a clear content hierarchy that guides the eye naturally",
      "Good use of white space creates breathing room between elements",
      "Visual balance is maintained across different screen areas",
      "The grid system provides solid structure while allowing creative elements",
      "Content grouping follows logical user flow patterns">>

\* generateLayoutFeedback: layoutSuggestions
layoutSuggestions ==
    <<"Try increasing margin consistency - use multiples of 8px for better rhythm",
      "Consider adding more visual weight to your primary call-to-action section",
      "The sidebar could benefit from slightly tighter padding to reduce visual separation",
      "Experiment with asymmetric layouts for key sections to create visual interest",
      "Add subtle background variations to distinguish different content blocks">>

\* generateUXFeedback: uxStrengths
uxStrengths ==
    <<"The user journey feels intuitive with clear progression markers",
      "Interactive elements have sufficient size for comfortable tapping",
      "Visual feedback for user actions appears well implemented",
      "Content prioritization aligns with user goals and expectations",
      "The design maintains consistency across different interaction states">>

\* generateUXFeedback: uxSuggestions
uxSuggestions ==
    <<"Add micro-interactions to button hover states for better engagement",
      "Consider implementing a loading state for content-heavy sections",
      "The navigation could benefit from visual indicators for current location",
      "Add subtle animation to transitions between different content views",
      "Consider adding tooltips for icon-only buttons to improve discoverability">>

\* generateRandomStrength: strengths
randomStrengths ==
    <<"The visual rhythm creates a pleasant scanning experience for users",
      "Color usage demonstrates good understanding of brand personality",
      "Element spacing shows thoughtful consideration of user comfort",
      "The design maintains excellent consistency across different components",
      "Visual hierarchy effectively guides attention to key content areas">>

\* generateRandomSuggestion: suggestions
randomSuggestions ==
    <<"Experiment with adding subtle shadows to create depth in flat areas",
      "Consider increasing the size of interactive elements by 10% for mobile",
      "Try using your accent color more strategically in hover states",
      "Add progressive disclosure for complex forms to reduce cognitive load",
      "Consider implementing a dark mode variant for extended reading sessions">>

\* item.toLowerCase().replace(/[^a-z]/g, '') of removeDuplicates, for every
\* text that the feedback generators can produce: the text in lower case
\* with everything but the letters a to z taken out
NormalizedKeys ==
    <<<<"The bold primary color creates strong visual impact and commands attention",
        "theboldprimarycolorcreatesstrongvisualimpactandcommandsattention">>,
      <<"Consider using a lighter tint of your primary color for secondary buttons to create hierarchy",
        "considerusingalightertintofyourprimarycolorforsecondarybuttonstocreatehierarchy">>,
      <<"The light primary color gives a soft, approachable feel to the design",
        "thelightprimarycolorgivesasoftapproachablefeeltothedesign">>,
      <<"Add a darker complementary color for important CTAs to make them stand out more",
        "addadarkercomplementarycolorforimportantctastomakethemstandoutmore">>,
      <<"Good contrast between primary and secondary colors creates clear visual distinction",
        "goodcontrastbetweenprimaryandsecondarycolorscreatesclearvisualdistinction">>,
      <<"Increase the lightness difference between primary and secondary colors for better element separation",
        "increasethelightnessdifferencebetweenprimaryandsecondarycolorsforbetterelementseparation">>,
      <<"The light background makes the design feel clean and spacious",
        "thelightbackgroundmakesthedesignfeelcleanandspacious">>,
      <<"Add subtle texture or very light gradients to prevent the background from feeling too flat",
        "addsubtletextureorverylightgradientstopreventthebackgroundfromfeelingtooflat">>,
      <<"Dark background creates a premium, sophisticated aesthetic",
        "darkbackgroundcreatesapremiumsophisticatedaesthetic">>,
      <<"Ensure text has sufficient contrast - consider lightening secondary text by 10-15%",
        "ensuretexthassufficientcontrastconsiderlighteningsecondarytextby">>,
      <<"The layout has a clear content hierarchy that guides the eye naturally",
        "thelayouthasaclearcontenthierarchythatguidestheeyenaturally">>,
      <<"Good use of white space creates breathing room between elements",
        "gooduseofwhitespacecreatesbreathingroombetweenelements">>,
      <<"Visual balance is maintained across different screen areas",
        "visualbalanceismaintainedacrossdifferentscreenareas">>,
      <<"The grid system provides solid structure while allowing creative elements",
        "thegridsystemprovidessolidstructurewhileallowingcreativeelements">>,
      <<"Content grouping follows logical user flow patterns",
        "contentgroupingfollowslogicaluserflowpatterns">>,
      <<"Try increasing margin consistency - use multiples of 8px for better rhythm",
        "tryincreasingmarginconsistencyusemultiplesofpxforbetterrhythm">>,
      <<"Consider adding more visual weight to your primary call-to-action section",
        "consideraddingmorevisualweighttoyourprimarycalltoactionsection">>,
      <<"The sidebar could benefit from slightly tighter padding to reduce visual separation",
        "thesidebarcouldbenefitfromslightlytighterpaddingtoreducevisualseparation">>,
      <<"Experiment with asymmetric layouts for key sections to create visual interest",
        "experimentwithasymmetriclayoutsforkeysectionstocreatevisualinterest">>,
      <<"Add subtle background variations to distinguish different content blocks",
        "addsubtlebackgroundvariationstodistinguishdifferentcontentblocks">>,
      <<"Excellent text contrast ensures maximum readability and accessibility",
        "excellenttextcontrastensuresmaximumreadabilityandaccessibility">>,
      <<"Good contrast ratio meets accessibility standards for most users",
        "goodcontrastratiomeetsaccessibilitystandardsformostusers">>,
      <<"Increase text-background contrast for better readability, especially in low light",
        "increasetextbackgroundcontrastforbetterreadabilityespeciallyinlowlight">>,
      <<"Consider softening the text contrast slightly for longer reading sessions",
        "considersofteningthetextcontrastslightlyforlongerreadingsessions">>,
      <<"Typography scale appears consistent across different content types",
        "typographyscaleappearsconsistentacrossdifferentcontenttypes">>,
      <<"Add 1-2 px letter spacing to body text for improved scanability",
        "addpxletterspacingtobodytextforimprovedscanability">>,
      <<"The user journey feels intuitive with clear progression markers",
        "theuserjourneyfeelsintuitivewithclearprogressionmarkers">>,
      <<"Interactive elements have sufficient size for comfortable tapping",
        "interactiveelementshavesufficientsizeforcomfortabletapping">>,
      <<"Visual feedback for user actions appears well implemented",
        "visualfeedbackforuseractionsappearswellimplemented">>,
      <<"Content prioritization aligns with user goals and expectations",
        "contentprioritizationalignswithusergoalsandexpectations">>,
      <<"The design maintains consistency across different interaction states",
        "thedesignmaintainsconsistencyacrossdifferentinteractionstates">>,
      <<"Add micro-interactions to button hover states for better engagement",
        "addmicrointeractionstobuttonhoverstatesforbetterengagement">>,
      <<"Consider implementing a loading state for content-heavy sections",
        "considerimplementingaloadingstateforcontentheavysections">>,
      <<"The navigation could benefit from visual indicators for current location",
        "thenavigationcouldbenefitfromvisualindicatorsforcurrentlocation">>,
      <<"Add subtle animation to transitions between different content views",
        "addsubtleanimationtotransitionsbetweendifferentcontentviews">>,
      <<"Consider adding tooltips for icon-only buttons to improve discoverability",
        "consideraddingtooltipsforicononlybuttonstoimprovediscoverability">>,
      <<"The visual rhythm creates a pleasant scanning experience for users",
        "thevisualrhythmcreatesapleasantscanningexperienceforusers">>,
      <<"Color usage demonstrates good understanding of brand personality",
        "colorusagedemonstratesgoodunderstandingofbrandpersonality">>,
      <<"Element spacing shows thoughtful consideration of user comfort",
        "elementspacingshowsthoughtfulconsiderationofusercomfort">>,
      <<"The design maintains excellent consistency across different components",
        "thedesignmaintainsexcellentconsistencyacrossdifferentcomponents">>,
      <<"Visual hierarchy effectively guides attention to key content areas",
        "visualhierarchyeffectivelyguidesattentiontokeycontentareas">>,
      <<"Experiment with adding subtle shadows to create depth in flat areas",
        "experimentwithaddingsubtleshadowstocreatedepthinflatareas">>,
      <<"Consider increasing the size of interactive elements by 10% for mobile",
        "considerincreasingthesizeofinteractiveelementsbyformobile">>,
      <<"Try using your accent color more strategically in hover states",
        "tryusingyouraccentcolormorestrategicallyinhoverstates">>,
      <<"Add progressive disclosure for complex forms to reduce cognitive load",
        "addprogressivedisclosureforcomplexformstoreducecognitiveload">>,
      <<"Consider implementing a dark mode variant for extended reading sessions",
        "considerimplementingadarkmodevariantforextendedreadingsessions">>>>

\* the key that removeDuplicates computes for item
RECURSIVE KeyFrom(_, _)
KeyFrom(item, i) ==
    IF NormalizedKeys[i][1] = item THEN NormalizedKeys[i][2] ELSE KeyFrom(item, i + 1)

NormalizedKey(item) == KeyFrom(item, 1)

\* removeDuplicates(items): the filter with the set seen, from entry i on
RECURSIVE RemoveDuplicatesFrom(_, _, _)
RemoveDuplicatesFrom(items, i, seen) ==
    IF i > Len(items) THEN <<>>
    ELSE IF NormalizedKey(items[i]) \in seen
    THEN RemoveDuplicatesFrom(items, i + 1, seen)
    ELSE <<items[i]>> \o RemoveDuplicatesFrom(items, i + 1, seen \cup {NormalizedKey(items[i])})

\* removeDuplicates(items)
removeDuplicates(items) == RemoveDuplicatesFrom(items, 1, {})

\* randomChoice(array) for the draw k of Math.random()
randomChoice(array, k) == array[FloorRandom(k, Len(array)) + 1]

\* analyzeColorCombination(colors); the lightness is kept times 510
analyzeColorCombination(dominant) ==
    LET primaryLightness == getLightness(dominant.primary)
        secondaryLightness == getLightness(dominant.secondary)
        backgroundLightness == getLightness(dominant.background)
    IN  [strengths |->
            (IF primaryLightness < 40 * 510
             THEN <<"The bold primary color creates strong visual impact and commands attention">>
             ELSE IF primaryLightness > 70 * 510
             THEN <<"The light primary color gives a soft, approachable feel to the design">>
             ELSE <<>>)
            \o (IF Abs(primaryLightness - secondaryLightness) > 30 * 510
                THEN <<"Good contrast between primary and secondary colors creates clear visual distinction">>
                ELSE <<>>)
            \o (IF backgroundLightness > 80 * 510
                THEN <<"The light background makes the design feel clean and spacious">>
                ELSE IF backgroundLightness < 30 * 510
                THEN <<"Dark background creates a premium, sophisticated aesthetic">>
                ELSE <<>>),
         suggestions |->
            (IF primaryLightness < 40 * 510
             THEN <<"Consider using a lighter tint of your primary color for secondary buttons to create hierarchy">>
             ELSE IF primaryLightness > 70 * 510
             THEN <<"Add a darker complementary color for important CTAs to make them stand out more">>
             ELSE <<>>)
            \o (IF Abs(primaryLightness - secondaryLightness) > 30 * 510
                THEN <<>>
                ELSE <<"Increase the lightness difference between primary and secondary colors for better element separation">>)
            \o (IF backgroundLightness > 80 * 510
                THEN <<"Add subtle texture or very light gradients to prevent the background from feeling too flat">>
                ELSE IF backgroundLightness < 30 * 510
                THEN <<"Ensure text has sufficient contrast - consider lightening secondary text by 10-15%">>
                ELSE <<>>)]

\* generateLayoutFeedback() for the draws k1 and k2
generateLayoutFeedback(k1, k2) ==
    [strengths |-> <<randomChoice(layoutStrengths, k1)>>,
     suggestions |-> <<randomChoice(layoutSuggestions, k2)>>]

generateTypographyFeedback_noSpacing(ratioOfText) ==
    [strengths |->
        (IF FracAboveTenths(ratioOfText, 70)
         THEN <<"Excellent text contrast ensures maximum readability and accessibility">>
         ELSE IF FracAboveTenths(ratioOfText, 45)
         THEN <<"Good contrast ratio meets accessibility standards for most users">>
         ELSE <<>>)
        \o <<"Typography scale appears consistent across different content types">>,
     suggestions |->
        (IF FracAboveTenths(ratioOfText, 70) \/ FracAboveTenths(ratioOfText, 45)
         THEN <<>>
         ELSE <<"Increase text-background contrast for better readability, especially in low light">>)
        \o (IF FracAboveTenths(ratioOfText, 120)
            THEN <<"Consider softening the text contrast slightly for longer reading sessions">>
            ELSE <<>>)]

\* generateTypographyFeedback(ratioOfText)
generateTypographyFeedback(ratioOfText) ==
    [strengths |->
        (IF FracAboveTenths(ratioOfText, 70)
         THEN <<"Excellent text contrast ensures maximum readability and accessibility">>
         ELSE IF FracAboveTenths(ratioOfText, 45)
         THEN <<"Good contrast ratio meets accessibility standards for most users">>
         ELSE <<>>)
        \o <<"Typography scale appears consistent across different content types">>,
     suggestions |->
        (IF FracAboveTenths(ratioOfText, 70) \/ FracAboveTenths(ratioOfText, 45)
         THEN <<>>
         ELSE <<"Increase text-background contrast for better readability, especially in low light">>)
        \o (IF FracAboveTenths(ratioOfText, 120)
            THEN <<"Consider softening the text contrast slightly for longer reading sessions">>
            ELSE <<>>)
        \o <<"Add 1-2 px letter spacing to body text for improved scanability">>]

\* generateUXFeedback() for the draws k1 and k2
generateUXFeedback(k1, k2) ==
    [strengths |-> <<randomChoice(uxStrengths, k1)>>,
     suggestions |-> <<randomChoice(uxSuggestions, k2)>>]

\* generateRandomStrength() for the draw k
generateRandomStrength(k) == randomChoice(randomStrengths, k)

\* generateRandomSuggestion() for the draw k
generateRandomSuggestion(k) == randomChoice(randomSuggestions, k)

\* ------------------------------------------------------------------------
\* generateAdvancedHumanFeedback, step by step
\* ------------------------------------------------------------------------

\* dominant colours of lightness 0, 50, 83 and 100
FeedbackHexes == {Black, White, rgbToHex(255, 0, 0), rgbToHex(255, 234, 167)}

\* the dominant colours passed as colors (text and accent are not read)
FeedbackColours ==
    {[background |-> b, text |-> Black, primary |-> p, secondary |-> s, accent |-> p] :
        b \in FeedbackHexes, p \in FeedbackHexes, s \in FeedbackHexes}

\* contrast ratios at and around 4.5, 7 and 12, and the extremes 1 and 21
FeedbackContrasts ==
    {[num |-> n, den |-> 10] : n \in {10, 45, 46, 70, 71, 120, 121, 210}}

InitFeedback ==
    /\ ColorIdle
    /\ LayoutIdle
    /\ PipelineIdle
    /\ RegionIdle
    /\ UploadIdle
    /\ fbColors \in FeedbackColours
    /\ fbContrast \in FeedbackContrasts
    /\ fbpc = "combine"
    /\ uniqueStrengths = <<>>
    /\ uniqueSuggestions = <<>>

\* the four generators are called, and their texts combined, freed of
\* duplicates and cut to 3 strengths and 4 suggestions
CombineFeedback ==
    /\ fbpc = "combine"
    /\ \E k1 \in RandomDraws, k2 \in RandomDraws, k3 \in RandomDraws, k4 \in RandomDraws :
          LET colorAnalysis == analyzeColorCombination(fbColors)
              layoutFeedback == generateLayoutFeedback(k1, k2)
              typographyFeedback == generateTypographyFeedback(fbContrast)
              uxFeedback == generateUXFeedback(k3, k4)
              allStrengths == colorAnalysis.strengths \o layoutFeedback.strengths
                                  \o typographyFeedback.strengths \o uxFeedback.strengths
              allSuggestions == colorAnalysis.suggestions \o layoutFeedback.suggestions
                                    \o typographyFeedback.suggestions \o uxFeedback.suggestions
          IN  /\ uniqueStrengths' = Take(removeDuplicates(allStrengths), 3)
              /\ uniqueSuggestions' = Take(removeDuplicates(allSuggestions), 4)
    /\ fbpc' = "fillStrengths"
    /\ UNCHANGED <<fbColors, fbContrast, colorVars, layoutVars, pipelineVars, regionVars, uploadVars>>

\* while (uniqueStrengths.length < 3): one test of the condition and, if it
\* holds, one push
FillStrengths ==
    /\ fbpc = "fillStrengths"
    /\ IF Len(uniqueStrengths) < 3
       THEN /\ \E k \in RandomDraws :
                  uniqueStrengths' = Append(uniqueStrengths, generateRandomStrength(k))
            /\ UNCHANGED fbpc
       ELSE /\ fbpc' = "fillSuggestions"
            /\ UNCHANGED uniqueStrengths
    /\ UNCHANGED <<fbColors, fbContrast, uniqueSuggestions,
                   colorVars, layoutVars, pipelineVars, regionVars, uploadVars>>

\* while (uniqueSuggestions.length < 4): one test of the condition and, if
\* it holds, one push; the function returns when it fails
FillSuggestions ==
    /\ fbpc = "fillSuggestions"
    /\ IF Len(uniqueSuggestions) < 4
       THEN /\ \E k \in RandomDraws :
                  uniqueSuggestions' = Append(uniqueSuggestions, generateRandomSuggestion(k))
            /\ UNCHANGED fbpc
       ELSE /\ fbpc' = "returned"
            /\ UNCHANGED uniqueSuggestions
    /\ UNCHANGED <<fbColors, fbContrast, uniqueStrengths,
                   colorVars, layoutVars, pipelineVars, regionVars, uploadVars>>

NextFeedback == CombineFeedback \/ FillStrengths \/ FillSuggestions

SpecFeedback == InitFeedback /\ [][NextFeedback]_vars

\* ------------------------------------------------------------------------
\* Upload: handleSubmit and handleAnalyze, from await to await
\* ------------------------------------------------------------------------

\* the number of times the form is submitted
MaxRuns == 2

JsNumber(n) == [t |-> "number", n |-> n, s |-> ""]

JsString(s) == [t |-> "string", n |-> Len(s), s |-> s]

\* an array of n entries
JsArray(n) == [t |-> "array", n |-> n, s |-> ""]

\* an object of n properties
JsObject(n) == [t |-> "object", n |-> n, s |-> ""]

\* !value is false
Truthy(value) ==
    CASE value.t = "undefined" -> FALSE
      [] value.t = "number" -> value.n # 0
      [] value.t = "string" -> value.n # 0
      [] OTHER -> TRUE

\* a || b
OrElse(a, b) == IF Truthy(a) THEN a ELSE b

\* JSON.stringify(object): the properties that are not undefined
JSONstringify(object) == [k \in {p \in DOMAIN object : object[p].t # "undefined"} |-> object[k]]

\* the files that can be selected
Files == {"design.png"}

\* secure_url of the upload response, undefined if the response has none
SecureUrls == {"null", "https://res.cloudinary.com/demo/design.png"}

\* the objects that JSON.parse can return for the AI message: the scores 0,
\* 1, 75 and 100 or none, and each other field present or not
ParsedObjects ==
    [overallScore : {Undefined, JsNumber(0), JsNumber(1), JsNumber(75), JsNumber(100)},
     designType : {Undefined, JsString("poster")},
     strengths : {Undefined, JsArray(0), JsArray(3)},
     improvementSuggestions : {Undefined, JsArray(4)},
     detailedAnalysis : {Undefined, JsObject(5)}]

\* the status codes of a response that is not ok
ErrorStatus == {401, 500}

\* the messages of the errors that handleAnalyze throws, and examples of the
\* messages of the errors that fetch, json, text, the property access
\* choices[0] and kv.set raise
ErrorMessages ==
    {"Failed to upload image to cloud storage",
     "AI response was not in the expected format. Please try again.",
     "AI response missing required fields",
     "Failed to fetch", "Unexpected end of JSON input",
     "Cannot read properties of undefined (reading '0')", "kv.set failed"}
    \cup {"OpenRouter API error: " \o ToString(status) : status \in ErrorStatus}

InitUpload ==
    /\ ColorIdle
    /\ LayoutIdle
    /\ PipelineIdle
    /\ RegionIdle
    /\ FeedbackIdle
    /\ UploadIdle

\* the form is rendered
FormShown == ~isProcessing /\ route = ""

\* handleFileSelect(file), from the file input: a file, or null when the
\* selection is empty
HandleFileSelect ==
    /\ FormShown
    /\ \E f \in Files \cup {NoFile} :
          /\ file' = f
          /\ previewUrl' = (IF f # NoFile THEN "blob:" \o f ELSE NoUrl)
    /\ UNCHANGED <<isProcessing, statusText, upc, imageUrl, designId, parsedFeedback, kvPending,
                   passed, kvCalls, kvStore, timer, route, runs,
                   colorVars, layoutVars, pipelineVars, regionVars, feedbackVars>>

\* handleSubmit(e): without a file an alert and nothing else, with a file
\* handleAnalyze(file) up to its first await, the fetch of the upload
HandleSubmit ==
    /\ FormShown
    /\ runs < MaxRuns
    /\ IF file = NoFile
       THEN UNCHANGED <<isProcessing, statusText, upc, imageUrl, designId, parsedFeedback,
                        passed, runs>>
       ELSE /\ isProcessing' = TRUE
            /\ statusText' = "Uploading design to cloud storage..."
            /\ upc' = "upload"
            /\ imageUrl' = NoUrl /\ designId' = 0 /\ parsedFeedback' = NoFeedback
            /\ passed' = {}
            /\ runs' = runs + 1
    /\ UNCHANGED <<file, previewUrl, kvPending, kvCalls, kvStore, timer, route,
                   colorVars, layoutVars, pipelineVars, regionVars, feedbackVars>>

CatchError_stillProcessing(message) ==
    /\ statusText' = "Error: Analysis failed - " \o message
    /\ isProcessing' = TRUE
    /\ upc' = "failed"

\* the catch block of handleAnalyze
CatchError(message) ==
    /\ statusText' = "Error: Analysis failed - " \o message
    /\ isProcessing' = FALSE
    /\ upc' = "failed"

\* the fetch of the upload settles: rejected, or resolved with a response
\* that is ok or not
UploadResponds ==
    /\ upc = "upload"
    /\ \/ CatchError("Failed to fetch") /\ UNCHANGED passed
       \/ CatchError("Failed to upload image to cloud storage") /\ UNCHANGED passed
       \/ /\ upc' = "uploadJson"
          /\ passed' = passed \cup {"upload"}
          /\ UNCHANGED <<isProcessing, statusText>>
    /\ UNCHANGED <<file, previewUrl, imageUrl, designId, parsedFeedback, kvPending,
                   kvCalls, kvStore, timer, route, runs,
                   colorVars, layoutVars, pipelineVars, regionVars, feedbackVars>>

\* uploadResponse.json() settles; then generateUUID() and the fetch of the
\* AI completion
UploadJsonSettles ==
    /\ upc = "uploadJson"
    /\ \/ /\ CatchError("Unexpected end of JSON input")
          /\ UNCHANGED <<imageUrl, designId>>
       \/ /\ imageUrl' \in SecureUrls
          /\ designId' = runs
          /\ statusText' = "Analyzing design with AI..."
          /\ upc' = "completion"
          /\ UNCHANGED isProcessing
    /\ UNCHANGED <<file, previewUrl, parsedFeedback, kvPending, passed,
                   kvCalls, kvStore, timer, route, runs,
                   colorVars, layoutVars, pipelineVars, regionVars, feedbackVars>>

\* the fetch of the AI completion settles: rejected, or resolved with a
\* response that is ok or not
CompletionResponds ==
    /\ upc = "completion"
    /\ \/ CatchError("Failed to fetch") /\ UNCHANGED passed
       \/ /\ upc' = "errorText"
          /\ UNCHANGED <<isProcessing, statusText, passed>>
       \/ /\ upc' = "completionJson"
          /\ passed' = passed \cup {"completion"}
          /\ UNCHANGED <<isProcessing, statusText>>
    /\ UNCHANGED <<file, previewUrl, imageUrl, designId, parsedFeedback, kvPending,
                   kvCalls, kvStore, timer, route, runs,
                   colorVars, layoutVars, pipelineVars, regionVars, feedbackVars>>

\* openRouterResponse.text() of a response that is not ok settles, and the
\* error with the status of the response is thrown unless text() rejected
ErrorTextSettles ==
    /\ upc = "errorText"
    /\ \/ CatchError("Failed to fetch")
       \/ \E status \in ErrorStatus : CatchError("OpenRouter API error: " \o ToString(status))
    /\ UNCHANGED <<file, previewUrl, imageUrl, designId, parsedFeedback, kvPending, passed,
                   kvCalls, kvStore, timer, route, runs,
                   colorVars, layoutVars, pipelineVars, regionVars, feedbackVars>>

\* !parsedFeedback.overallScore || !parsedFeedback.strengths
\*     || !parsedFeedback.improvementSuggestions || !parsedFeedback.detailedAnalysis
MissingRequiredFields(parsed) ==
    \/ ~Truthy(parsed.overallScore)
    \/ ~Truthy(parsed.strengths)
    \/ ~Truthy(parsed.improvementSuggestions)
    \/ ~Truthy(parsed.detailedAnalysis)

\* the object data that handleAnalyze saves
DesignData(id, url, parsed) ==
    [id |-> JsString(ToString(id)),
     imagePath |-> (IF url = NoUrl THEN Undefined ELSE JsString(url)),
     designName |-> OrElse(parsed.designType, JsString("Design")),
     designPurpose |-> JsString("Design Analysis"),
     feedback |-> [t |-> "object", n |-> 4, s |-> "",
                   overallScore |-> parsed.overallScore,
                   improvementSuggestions |-> parsed.improvementSuggestions,
                   strengths |-> parsed.strengths,
                   analysis |-> parsed.detailedAnalysis],
     analysis |-> parsed.detailedAnalysis,
     designType |-> OrElse(parsed.designType, JsString("Unknown"))]

\* openRouterResponse.json() settles; then the message is read, parsed and
\* validated, and data is passed to kv.set
CompletionJsonSettles ==
    /\ upc = "completionJson"
    /\ \/ /\ \/ CatchError("Unexpected end of JSON input")
             \/ CatchError("Cannot read properties of undefined (reading '0')")
             \/ CatchError("AI response was not in the expected format. Please try again.")
          /\ UNCHANGED <<parsedFeedback, passed, kvPending, kvCalls>>
       \/ \E parsed \in ParsedObjects :
             /\ parsedFeedback' = parsed
             /\ IF MissingRequiredFields(parsed)
                THEN /\ CatchError("AI response missing required fields")
                     /\ passed' = passed \cup {"parsed"}
                     /\ UNCHANGED <<kvPending, kvCalls>>
                ELSE /\ passed' = passed \cup {"parsed", "validated"}
                     /\ kvPending' = [key |-> "design:" \o ToString(designId),
                                      value |-> JSONstringify(DesignData(designId, imageUrl, parsed))]
                     /\ kvCalls' = Append(kvCalls, "design:" \o ToString(designId))
                     /\ upc' = "kvSet"
                     /\ UNCHANGED <<isProcessing, statusText>>
    /\ UNCHANGED <<file, previewUrl, imageUrl, designId, kvStore, timer, route, runs,
                   colorVars, layoutVars, pipelineVars, regionVars, feedbackVars>>

\* kv.set settles: rejected or, with the record written, resolved, and then
\* the navigation is scheduled
KvSetSettles ==
    /\ upc = "kvSet"
    /\ \/ /\ CatchError("kv.set failed")
          /\ UNCHANGED <<kvStore, timer>>
       \/ /\ kvStore' = {e \in kvStore : e.key # kvPending.key} \cup {kvPending}
          /\ statusText' = "AI analysis complete! Redirecting..."
          /\ timer' = designId
          /\ upc' = "done"
          /\ UNCHANGED isProcessing
    /\ kvPending' = NoCall
    /\ UNCHANGED <<file, previewUrl, imageUrl, designId, parsedFeedback, passed,
                   kvCalls, route, runs,
                   colorVars, layoutVars, pipelineVars, regionVars, feedbackVars>>

\* the callback of setTimeout: navigate(`/design/${designId}`)
TimerFires ==
    /\ timer # 0
    /\ route' = "/design/" \o ToString(timer)
    /\ timer' = 0
    /\ UNCHANGED <<file, previewUrl, isProcessing, statusText, upc, imageUrl, designId,
                   parsedFeedback, kvPending, passed, kvCalls, kvStore, runs,
                   colorVars, layoutVars, pipelineVars, regionVars, feedbackVars>>

\* the steps of handleAnalyze after its call
AnalyzeSteps ==
    \/ UploadResponds
    \/ UploadJsonSettles
    \/ CompletionResponds
    \/ ErrorTextSettles
    \/ CompletionJsonSettles
    \/ KvSetSettles
    \/ TimerFires

NextUpload == HandleFileSelect \/ HandleSubmit \/ AnalyzeSteps

\* every awaited promise settles and the timer fires
SpecUpload == InitUpload /\ [][NextUpload]_vars /\ WF_vars(AnalyzeSteps)

\* ------------------------------------------------------------------------
\* Claims
\* ------------------------------------------------------------------------

\* the contrast ratio of the background and the text colour is at least n
ContrastAtLeast(dominant, n) ==
    FracAtLeastInt(calculateContrastRatio(dominant.background, dominant.text), n)

\* C1: in the result of every analysis of a decodable image the background
\* and the text colour differ and their contrast ratio is at least 3.0.
C1_TextContrastFloor ==
    (outcome = "resolved" /\ result.success) =>
        /\ result.analysis.dominantColors.background # result.analysis.dominantColors.text
        /\ ContrastAtLeast(result.analysis.dominantColors, 3)

\* C2: for every vector of four non-negative quadrant weights
\* calculateBalance and calculateSymmetry return a number within [0,100].
C2_BalanceSymmetryInRange ==
    /\ lpc \in {"balanced", "done"} => InRange(balance, 0, 100)
    /\ lpc = "done" => InRange(symmetry, 0, 100)

\* C3: a flat, non-black image of any width and height yields balance 100
\* and symmetry 100.
C3_FlatImageBalanced ==
    (lpc = "done" /\ limg # NoImage /\ IsFlat(limg) /\ ~IsBlack(limg.right)) =>
        (balance = Num(100) /\ symmetry = Num(100))

\* C4: a second analyzeDesign run over the same image returns the metrics
\* of the first run.
C4_RunsIdentical ==
    (firstRun.ran /\ outcome = "resolved") => result = firstRun.result

\* C5: every iteration of the sampling loop of analyzeColors advances the
\* loop index.
C5_LoopAdvances ==
    [][(pc = "analyzeColors" /\ pc' = "analyzeColors") => colorIndex' > colorIndex]_vars

\* the overall score that the documented weights give for the sub-scores of
\* an analysis record
WeightedCombination(a) ==
    IF analyzer = "AI"
    THEN OverallAverage(a.textReadability.num, a.colorScore.num, a.layoutScore.num,
                        a.visualHierarchy.num, a.spacingScore.num)
    ELSE WeightedOverall(a.textReadability.num, a.colorScore.num, a.layoutScore.num,
                         Hundredths(a.visualHierarchy), a.spacingScore.num)

\* C6: the overall score of every successful analysis is an integer within
\* [0,100] and equals the rounded weighted combination of the five sub-scores.
C6_OverallWeighted ==
    (outcome = "resolved" /\ result.success) =>
        /\ IsInteger(result.overallScore)
        /\ InRange(result.overallScore, 0, 100)
        /\ ~result.analysis.layoutScore.nan
        /\ result.overallScore.num = WeightedCombination(result.analysis)

CallFails == ~image.decodable \/ (analyzer = "Advanced" /\ getImageDataThrows(canvas))

C8_ContrastSymmetric ==
    cpc = "contrast" =>
        LET lumA == getLuminanceFromHex(hexA)
            lumB == getLuminanceFromHex(hexB)
            brighter == IF lumA >= lumB THEN lumA ELSE lumB
            darker == IF lumA >= lumB THEN lumB ELSE lumA
            reverse == calculateContrastRatio(hexB, hexA)
        IN  /\ ratio.num * reverse.den = reverse.num * ratio.den
            /\ ratio.num >= ratio.den
            /\ ratio.num = brighter + ContrastOffset
            /\ ratio.den = darker + ContrastOffset
            /\ calculateColorContrast(hexA, hexB) = ratio
            /\ calculateColorContrast(hexB, hexA) = ratio

\* C8 witness: the ratio of a darker first colour against a brighter second
\* colour has been computed.
C8_Witness ==
    /\ cpc = "contrast"
    /\ getLuminanceFromHex(hexA) < getLuminanceFromHex(hexB)
    /\ ratio.num > ratio.den

\* C9: quantizeToWebColors(c) is an entry of the reference palette at
\* minimal RGB distance from c, and among the entries at that distance it is
\* the one declared first.
C9_NearestFirst ==
    cpc = "quantized" =>
        \E i \in 1..Len(webColors) :
            /\ quantized = webColors[i]
            /\ \A j \in 1..Len(webColors) :
                   colorDistance(hexA, webColors[i]) <= colorDistance(hexA, webColors[j])
            /\ \A j \in 1..(i - 1) :
                   colorDistance(hexA, webColors[j]) > colorDistance(hexA, webColors[i])

\* C9 witness: a colour with two reference entries at the same minimal
\* distance has been quantized.
C9_Witness ==
    /\ cpc = "quantized"
    /\ \E i, j \in 1..Len(webColors) :
           /\ i < j
           /\ colorDistance(hexA, webColors[i]) = colorDistance(hexA, webColors[j])
           /\ \A k \in 1..Len(webColors) :
                  colorDistance(hexA, webColors[i]) <= colorDistance(hexA, webColors[k])

\* the entries of a palette are pairwise distinct
Distinct(seq) == \A i, j \in 1..Len(seq) : i # j => seq[i] # seq[j]

\* the entries of a palette are ordered by non-increasing lightness
LightnessOrdered(seq) ==
    \A i \in 1..(Len(seq) - 1) : getLightness(seq[i]) >= getLightness(seq[i + 1])

\* number of samples counted for a colour of the colorMap
CountOf(map, c) == map[CHOOSE i \in 1..Len(map) : map[i].color = c].count

TopOf ==
    IF analyzer = "AI" THEN TopColors(colors) ELSE ColorsOf(Take(SortByCount(colorMap), 8))

\* the buckets that the samples fall into, sample by sample
BucketsOf ==
    IF analyzer = "AI"
    THEN [i \in 1..Len(colors) |-> quantizeToWebColors(colors[i])]
    ELSE [i \in 1..Len(colors) |->
            quantizeColor(hexToRgb(colors[i])[1], hexToRgb(colors[i])[2],
                          hexToRgb(colors[i])[3])]

\* number of samples that fall into the bucket c
BucketCount(buckets, c) == Cardinality({i \in 1..Len(buckets) : buckets[i] = c})

\* the colour analysis of the analyzer has finished
DominantsAssigned ==
    \/ analyzer = "AI" /\ pc = "scores"
    \/ analyzer = "Advanced" /\ pc = "analyzeLayout"

\* two hex strings that denote the same colour
SameColour(a, b) == hexToRgb(a) = hexToRgb(b)

BackgroundRule(top, buckets, background) ==
    IF top = <<>> THEN background = White
    ELSE IF \E i \in 1..Len(top) : LightnessAbove(top[i], 60)
         THEN /\ Contains(top, background)
              /\ LightnessAbove(background, 60)
              /\ \A i \in 1..Len(top) :
                    LightnessAbove(top[i], 60) =>
                        BucketCount(buckets, background) >= BucketCount(buckets, top[i])
         ELSE /\ Contains(top, background)
              /\ \A i \in 1..Len(top) :
                    BucketCount(buckets, background) >= BucketCount(buckets, top[i])

\* C12 as stated: in both analyzers the background is the most frequent top
\* colour of lightness above 60, else the most frequent colour, else white.
C12_BackgroundLightFirst ==
    DominantsAssigned => BackgroundRule(TopOf, BucketsOf, dominantColors.background)

\* the background is the most frequent colour, white if there is none
MostFrequentRule(top, buckets, background) ==
    IF top = <<>> THEN background = White
    ELSE /\ Contains(top, background)
         /\ \A i \in 1..Len(buckets) :
               BucketCount(buckets, background) >= BucketCount(buckets, buckets[i])

\* C12: in AIDesignAnalyzer the background is the most frequent top colour of
\* lightness above 60, else the most frequent colour, else white; in
\* AdvancedDesignAnalyzer it is the most frequent quantized colour whatever
\* its lightness, and white if there is none.
C12_BackgroundByAnalyzer ==
    DominantsAssigned =>
        IF analyzer = "AI"
        THEN BackgroundRule(TopOf, BucketsOf, dominantColors.background)
        ELSE MostFrequentRule(TopOf, BucketsOf, dominantColors.background)

\* C12 witness: AIDesignAnalyzer has passed over a more frequent colour that
\* is not light.
C12_Witness ==
    /\ DominantsAssigned /\ analyzer = "AI"
    /\ LightnessAbove(dominantColors.background, 60)
    /\ \E i \in 1..Len(colors) :
          BucketCount(BucketsOf, BucketsOf[i])
              > BucketCount(BucketsOf, dominantColors.background)

\* the top colours other than the background
OtherColours(top, background) == {top[i] : i \in 1..Len(top)} \ {background}

\* text has the largest contrast ratio against the background among others
MaximalContrast(others, background, text) ==
    /\ text \in others
    /\ \A d \in others :
          ~FracLess(calculateContrastRatio(background, text),
                    calculateContrastRatio(background, d))

\* the text rule of the claim: the top colour of maximal contrast if that
\* contrast is at least 3, else black or white, whichever is farther in
\* lightness from the background
TextRule(others, background, text) ==
    IF \E c \in others : FracAtLeastInt(calculateContrastRatio(background, c), 3)
    THEN MaximalContrast(others, background, text)
    ELSE IF LightnessAbove(background, 50) THEN text = Black
         ELSE IF getLightness(background) = 50 * 510
              THEN text \in {Black, White}
              ELSE text = White

\* C13 as stated: in both analyzers the text colour is a top colour other
\* than the background of maximal contrast against it, and black or white,
\* whichever is farther in lightness from the background, if that contrast is
\* below 3 or there is no other colour (stated for the analyses that sampled
\* a colour).
C13_TextMaxContrastOrOverride ==
    (DominantsAssigned /\ colors # <<>>) =>
        TextRule(OtherColours(TopOf, dominantColors.background),
                 dominantColors.background, dominantColors.text)

\* the text rule of AIDesignAnalyzer: the top colour of maximal contrast if
\* that contrast is at least 3, else black on a background of lightness above
\* 50 and white otherwise
TextRuleAI(others, background, text) ==
    IF \E c \in others : FracAtLeastInt(calculateContrastRatio(background, c), 3)
    THEN MaximalContrast(others, background, text)
    ELSE text = (IF LightnessAbove(background, 50) THEN Black ELSE White)

\* the text rule of AdvancedDesignAnalyzer: a top colour of maximal contrast
\* if that contrast is at least 4.5, else black on a background of luminance
\* above 0.5 and white otherwise
TextRuleAdvanced(top, background, text) ==
    IF \E i \in 1..Len(top) :
          calculateContrastRatio(background, top[i]).num * 10
              >= 45 * calculateContrastRatio(background, top[i]).den
    THEN MaximalContrast({top[i] : i \in 1..Len(top)}, background, text)
    ELSE text = (IF getLuminanceFromHex(background) * 2 > LumScale THEN Black ELSE White)

\* C13: in AIDesignAnalyzer the text colour is a top colour other than the
\* background of maximal contrast against it if that contrast is at least 3,
\* else black on a background of lightness above 50 and white otherwise, and
\* #333333 if no colour was sampled; in AdvancedDesignAnalyzer it is a top
\* colour of maximal contrast if that contrast is at least 4.5, else black on
\* a background of luminance above 0.5 and white otherwise.
C13_TextByAnalyzer ==
    DominantsAssigned =>
        IF analyzer = "AI"
        THEN IF colors = <<>> THEN dominantColors.text = Hex("3","3","3","3","3","3")
             ELSE TextRuleAI(OtherColours(TopOf, dominantColors.background),
                             dominantColors.background, dominantColors.text)
        ELSE IF colors = <<>> THEN dominantColors.text = Black
             ELSE TextRuleAdvanced(TopOf, dominantColors.background, dominantColors.text)

\* C13 witness: AIDesignAnalyzer has overridden the text colour although
\* there was another top colour, its contrast being below 3.
C13_Witness ==
    /\ DominantsAssigned /\ analyzer = "AI"
    /\ OtherColours(TopOf, dominantColors.background) # {}
    /\ ~Contains(TopOf, dominantColors.text)
    /\ dominantColors.text = Black

\* the top colours that are neither background nor text, in order of
\* frequency
Unassigned(top, dominant) == Without(top, {dominant.background, dominant.text})

\* b is the bitwise complement of a: 255 - channel
IsComplement(a, b) ==
    \A i \in 1..3 : hexToRgb(a)[i] + hexToRgb(b)[i] = 255

\* b is a with every channel raised by amount, capped at 255
IsBrightened(a, b, amount) ==
    \A i \in 1..3 : hexToRgb(b)[i] = Min2(255, hexToRgb(a)[i] + amount)

\* b is the entry paired with a in the lookup table or, when a has no entry,
\* the bitwise complement of a
IsPairedOrComplement(a, b) ==
    IF \E i \in 1..Len(accentPairs) : accentPairs[i][1] = a
    THEN \E i \in 1..Len(accentPairs) : accentPairs[i][1] = a /\ accentPairs[i][2] = b
    ELSE IsComplement(a, b)

\* C14 as stated: primary and secondary are the two most frequent top
\* colours assigned neither to background nor to text; an unfilled primary
\* is one of the vibrant colours, an unfilled secondary is the entry paired
\* with primary in the lookup table or else its bitwise complement, and an
\* unfilled accent is a palette colour or the fixed fallback hue (stated for
\* the analyses that sampled a colour).
C14_PrimarySecondaryAccent ==
    (DominantsAssigned /\ colors # <<>>) =>
        LET remaining == Unassigned(TopOf, dominantColors)
        IN  /\ IF Len(remaining) >= 1 THEN dominantColors.primary = remaining[1]
               ELSE Contains(vibrantColors, dominantColors.primary)
            /\ IF Len(remaining) >= 2 THEN dominantColors.secondary = remaining[2]
               ELSE IsPairedOrComplement(dominantColors.primary, dominantColors.secondary)
            /\ IF Len(remaining) >= 3 THEN dominantColors.accent = remaining[3]
               ELSE \/ Contains(TopOf, dominantColors.accent)
                    \/ dominantColors.accent = vibrantColors[1]

\* the slots of AIDesignAnalyzer
SlotsAI(remaining, dominant) ==
    /\ IF Len(remaining) >= 1 THEN dominant.primary = remaining[1]
       ELSE Contains(vibrantColors, dominant.primary)
    /\ IF Len(remaining) >= 2 THEN dominant.secondary = remaining[2]
       ELSE IsComplement(dominant.primary, dominant.secondary)
    /\ IF Len(remaining) >= 3 THEN dominant.accent = remaining[3]
       ELSE IsPairedOrComplement(dominant.primary, dominant.accent)

\* the slots of AdvancedDesignAnalyzer
SlotsAdvanced(top, dominant) ==
    /\ IF Len(top) >= 2 THEN dominant.primary = top[2]
       ELSE IsBrightened(dominant.background, dominant.primary, 30)
    /\ IF Len(top) >= 3 THEN dominant.secondary = top[3]
       ELSE IsBrightened(dominant.background, dominant.secondary, 50)
    /\ LET medium == {i \in 1..Len(top) :
                         /\ getLuminanceFromHex(top[i]) * 10 > 3 * LumScale
                         /\ getLuminanceFromHex(top[i]) * 10 < 7 * LumScale
                         /\ top[i] # dominant.background}
       IN  IF medium = {} THEN dominant.accent = vibrantColors[1]
           ELSE \E i \in medium : /\ dominant.accent = top[i]
                                  /\ \A j \in medium : i <= j

\* C14: in AIDesignAnalyzer primary, secondary and accent are the three most
\* frequent top colours assigned neither to background nor to text; an
\* unfilled primary is one of the vibrant colours, an unfilled secondary is
\* the bitwise complement of primary, an unfilled accent is the entry paired
\* with primary in the lookup table or else its bitwise complement. In
\* AdvancedDesignAnalyzer primary and secondary are the second and third most
\* frequent colours, or else the background raised by 30 and by 50, and the
\* accent is the most frequent colour of luminance between 0.3 and 0.7 other
\* than the background, or else #FF6B6B. Without samples the slots hold the
\* fixed default colours of the analyzer.
C14_SlotsByAnalyzer ==
    DominantsAssigned =>
        IF analyzer = "AI"
        THEN IF colors = <<>>
             THEN /\ dominantColors.primary = Hex("0","0","7","B","F","F")
                  /\ dominantColors.secondary = Hex("6","C","7","5","7","D")
                  /\ dominantColors.accent = Hex("F","F","6","B","6","B")
             ELSE SlotsAI(Unassigned(TopOf, dominantColors), dominantColors)
        ELSE IF colors = <<>>
             THEN /\ dominantColors.primary = Black
                  /\ dominantColors.secondary = Hex("6","6","6","6","6","6")
                  /\ dominantColors.accent = Hex("F","F","0","0","0","0")
             ELSE SlotsAdvanced(TopOf, dominantColors)

\* C14 witness: AIDesignAnalyzer has synthesized the secondary colour as the
\* complement of a primary colour that has an entry in the lookup table, and
\* the accent from that entry.
C14_Witness ==
    /\ DominantsAssigned /\ analyzer = "AI"
    /\ colors # <<>>
    /\ Len(Unassigned(TopOf, dominantColors)) < 2
    /\ \E i \in 1..Len(accentPairs) :
          /\ accentPairs[i][1] = dominantColors.primary
          /\ accentPairs[i][2] = dominantColors.accent
    /\ IsComplement(dominantColors.primary, dominantColors.secondary)

\* the colour c is that of a pixel of the image whose alpha is above 128 and
\* of which two channels differ by at least 20
VisibleColourOf(img, c) ==
    \E p \in {img.left, img.right} :
        /\ c = rgbToHex(p[1], p[2], p[3])
        /\ p[4] > 128
        /\ Abs(p[1] - p[2]) >= 20 \/ Abs(p[1] - p[3]) >= 20 \/ Abs(p[2] - p[3]) >= 20

\* the draws that sampleStrategicRegions has made so far
DrawsMade == (region - 1) * DrawsPerRegion + draw

\* every pixel that a draw reads lies inside the image: no position is
\* negative, and a position that passes the test x < width, y < height has
\* its four channels inside the data
ReadsInsideImage(img) ==
    \A r \in 1..Len(regions), kx \in RandomDraws, ky \in RandomDraws :
        LET x == SamplePosition(img.width, regions[r].x, regions[r].w, kx)
            y == SamplePosition(img.height, regions[r].y, regions[r].h, ky)
        IN  /\ x >= 0 /\ y >= 0
            /\ (x < img.width /\ y < img.height) =>
                  (y * img.width + x) * 4 + 3 < img.width * img.height * 4

\* C15: sampleStrategicRegions makes the same fixed number of draws in each
\* of its five regions (DrawsPerRegion in the model, 800 in the code), reads
\* only pixels inside the image, every colour it returns is that
\* of a pixel with alpha above 128 that is not gray, and so it returns at
\* most five times the number of draws per region.
C15_SamplingBounded ==
    /\ [](analyzer = "AI" =>
            /\ \A i \in 1..Len(colors) : VisibleColourOf(image, colors[i])
            /\ pc = "sampleStrategicRegions" =>
                  /\ region \in 1..Len(regions)
                  /\ draw \in 0..(DrawsPerRegion - 1)
                  /\ Len(colors) <= DrawsMade
                  /\ ReadsInsideImage(image)
            /\ Len(colors) <= Len(regions) * DrawsPerRegion)
    /\ [][(analyzer = "AI" /\ pc = "sampleStrategicRegions") =>
            /\ Len(colors') \in {Len(colors), Len(colors) + 1}
            /\ IF pc' = "sampleStrategicRegions"
               THEN DrawsMade' = DrawsMade + 1
               ELSE DrawsMade + 1 = Len(regions) * DrawsPerRegion]_vars

\* C15 witness: the sampling has ended with some draws kept and some
\* skipped.
C15_Witness ==
    /\ analyzer = "AI"
    /\ pc = "extractColors"
    /\ Len(colors) > 0
    /\ Len(colors) < Len(regions) * DrawsPerRegion

\* ------------------------------------------------------------------------
\* C16: the regions that detectTextRegions keeps
\* ------------------------------------------------------------------------

\* the image consists of opaque black and opaque white pixels
IsBlackWhite(img) == img.decodable /\ {img.left, img.right} \subseteq {PxBlack, PxWhite}

\* the pixels around (x, y) that lie inside the image
NeighboursInside(img, x, y) ==
    {<<x + NeighbourOffsets[k][1], y + NeighbourOffsets[k][2]>> : k \in 1..Len(NeighbourOffsets)}
        \cap ((0..(img.width - 1)) \X (0..(img.height - 1)))

\* the luminance of (x, y) differs from that of a neighbour by the whole
\* luminance range: (x, y) is an edge pixel for every threshold that a
\* luminance difference can exceed
SureEdge(img, x, y) ==
    \E q \in NeighboursInside(img, x, y) :
        Abs(getLuminance(PixelAt(img, x, y)[1], PixelAt(img, x, y)[2], PixelAt(img, x, y)[3])
            - getLuminance(PixelAt(img, q[1], q[2])[1], PixelAt(img, q[1], q[2])[2],
                           PixelAt(img, q[1], q[2])[3])) = LumScale

\* the edge pixels connected to the pixels of reg, grown outwards from
\* frontier until no pixel is added or more than cap pixels are found
RECURSIVE GrownRegion(_, _, _, _)
GrownRegion(img, frontier, reg, cap) ==
    LET next == {q \in UNION {NeighboursInside(img, p[1], p[2]) : p \in frontier} :
                    q \notin reg /\ SureEdge(img, q[1], q[2])}
    IN  IF next = {} \/ Cardinality(reg) > cap THEN reg
        ELSE GrownRegion(img, next, reg \cup next, cap)

\* a seed pixel of detectTextRegions lies on an edge whose region has at
\* least n pixels
HasEdgeRegionOf(img, n) ==
    \E s \in SeedPixels(img) :
        /\ SureEdge(img, s[1], s[2])
        /\ Cardinality(GrownRegion(img, {s}, {s}, n)) >= n

\* analyzeText has completed with the text of advancedCanvasTextDetection
CanvasTextDone ==
    /\ analyzer = "Advanced"
    /\ ~textAnalysis.pending
    /\ \/ textAnalysis.extractedText = NoRegionsText
       \/ \E i \in 1..Len(textTemplates) : textAnalysis.extractedText = textTemplates[i]

\* C16: detectTextRegions keeps a grown edge region if and only if it has at
\* least 10 member pixels, a region of exactly 10 pixels included. Stated for
\* images of black and white pixels, whose edge pixels are the same for every
\* threshold below the whole luminance range: the canvas text detection has
\* found regions (its text is one of the templates) exactly when a seed pixel
\* lies on an edge whose grown region has at least 10 pixels.
C16_KeepsRegionsOfTen ==
    (CanvasTextDone /\ IsBlackWhite(image)) =>
        ((textAnalysis.extractedText # NoRegionsText) <=> HasEdgeRegionOf(image, 10))

\* ------------------------------------------------------------------------
\* C17: the sub-scores
\* ------------------------------------------------------------------------

\* the five sub-scores of a metrics record
SubScores(a) ==
    {a.textReadability, a.colorScore, a.layoutScore, a.visualHierarchy, a.spacingScore}

\* C17: in every successfully returned analysis each of the five sub-scores
\* (textReadability, colorScore, layoutScore, visualHierarchy, spacingScore)
\* is a number within [0,100].
C17_SubScoresInRange ==
    (result.success /\ result.hasAnalysis) =>
        \A s \in SubScores(result.analysis) : InRange(s, 0, 100)

\* ------------------------------------------------------------------------
\* C18: the grid-alignment score
\* ------------------------------------------------------------------------

\* the columns and the rows that detectAlignmentLines scans
SampledColumns(img) == {10 * i : i \in 0..((img.width - 1) \div 10)}

ScannedRows(img) == 1..(img.height - 2)

\* a maximal run of consecutive edge pixels of column x starts at row y and
\* is longer than a tenth of the image height; the run may reach the last
\* scanned row
StartsLongRun(img, x, y) ==
    LET needed == img.height \div 10 + 1
    IN  /\ y = 1 \/ ~SureEdge(img, x, y - 1)
        /\ y + needed - 1 <= img.height - 2
        /\ \A j \in y..(y + needed - 1) : SureEdge(img, x, j)

\* the number N of long runs on the sampled columns
LongRuns(img) ==
    Cardinality({c \in SampledColumns(img) \X ScannedRows(img) : StartsLongRun(img, c[1], c[2])})

\* C18: the grid-alignment score is clamp(50 + min(30, 5 * N), 0, 100), where
\* N counts, over every 10th column, the maximal runs of consecutive edge
\* pixels longer than 10% of the image height, a run that extends to the last
\* scanned row included. Stated for images of black and white pixels, whose
\* edge pixels are the same for every threshold below the whole luminance
\* range.
C18_GridAlignmentCountsRuns ==
    (analyzer = "Advanced" /\ layoutAnalysis # NoLayout /\ IsBlackWhite(image)) =>
        layoutAnalysis.gridQuality = Min2(100, Max2(0, 50 + Min2(30, 5 * LongRuns(image))))

\* ------------------------------------------------------------------------
\* C19: the four analyses of AdvancedDesignAnalyzer.analyzeDesign
\* ------------------------------------------------------------------------

\* the text, colour, layout and contrast analyses have all completed
AnalysesComplete ==
    /\ ~textAnalysis.pending
    /\ dominantColors # NoColours
    /\ layoutAnalysis # NoLayout
    /\ contrast # Num(0)

\* the metrics of the result are those of the completed analyses
MetricsOfAnalyses ==
    /\ result.analysis.extractedText = textAnalysis.extractedText
    /\ result.analysis.dominantColors = dominantColors
    /\ result.analysis.colorPalette = palette
    /\ result.analysis.contrastRatio = contrast

\* C19: in AdvancedDesignAnalyzer.analyzeDesign the text analysis is in flight
\* while the colour, layout and contrast analyses run, and scoring starts only
\* after all four have completed; a result with metrics holds the metrics of
\* the four completed analyses; when an analysis rejects the result is the
\* failure result; no step of the analyses changes the pixels of the image.
C19_ScoringAfterAllAnalyses ==
    /\ []((analyzer = "Advanced" /\ pc \in {"calculateScores", "generateAIFeedback"}) =>
             AnalysesComplete)
    /\ []((analyzer = "Advanced" /\ result.hasAnalysis) =>
             (AnalysesComplete /\ MetricsOfAnalyses))
    /\ []((analyzer = "Advanced" /\ outcome = "resolved" /\ getImageDataThrows(canvas)) =>
             result = getFallbackResultAdv)
    /\ [][analyzer = "Advanced" => image' = image]_vars

\* C19 witness: scoring is about to start on the analyses of an image; the
\* text is that of the TextDetector, which was in flight while the colour,
\* layout and contrast analyses ran.
C19_Witness ==
    /\ analyzer = "Advanced"
    /\ pc = "calculateScores"
    /\ AnalysesComplete
    /\ textAnalysis.extractedText \in DetectedTexts \ {<<>>}

\* ------------------------------------------------------------------------
\* C20: the solid white image
\* ------------------------------------------------------------------------

\* the 100x100 image whose every pixel is opaque white
WhiteImage == ImageFile(100, 100, PxWhite, PxWhite)

\* the default palettes: those of the fallback results of the two analyzers
DefaultPalettes == {getDefaultAnalysis.colorPalette, getFallbackResultAdv.analysis.colorPalette}

\* C20: for the 100x100 solid white image the analysis returns background
\* #FFFFFF, text #000000, a palette of [#FFFFFF] or the default fallback
\* palette and, where layout is analysed, balance 100 and symmetry 100.
C20_SolidWhiteImage ==
    (image = WhiteImage /\ outcome = "resolved") =>
        /\ result.success
        /\ SameColour(result.analysis.dominantColors.background, White)
        /\ SameColour(result.analysis.dominantColors.text, Black)
        /\ \/ /\ Len(result.analysis.colorPalette) = 1
              /\ SameColour(result.analysis.colorPalette[1], White)
           \/ result.analysis.colorPalette \in DefaultPalettes
        /\ analyzer = "Advanced" =>
              (layoutAnalysis.balance = Num(100) /\ layoutAnalysis.symmetry = Num(100))

\* ------------------------------------------------------------------------
\* C21: the red and blue image
\* ------------------------------------------------------------------------

\* the score s is a number below n
ScoreBelow(s, n) == ~s.nan /\ s.num < n * s.den

\* C21: for the 400x300 image whose left half is pure red and right half pure
\* blue both left quadrant weights exceed both right quadrant weights, the
\* balance score is strictly less than 100 and the symmetry score is strictly
\* less than 100.
C21_RedBlueUnbalanced ==
    (limg = RedBlueImage) =>
        /\ lpc \in {"weights", "balanced", "done"} =>
              \A l \in {1, 3} : \A r \in {2, 4} : quarters[l] > quarters[r]
        /\ lpc \in {"balanced", "done"} => ScoreBelow(balance, 100)
        /\ lpc = "done" => ScoreBelow(symmetry, 100)

\* C21 witness: the layout of the red and blue image has been analysed.
C21_Witness ==
    /\ limg = RedBlueImage
    /\ lpc = "done"
    /\ quarters[1] > 0
    /\ quarters[2] > 0

\* ------------------------------------------------------------------------
\* C22: the working resolution
\* ------------------------------------------------------------------------

\* the canvas side c is side * 800 / longer up to the integer part
ScaledBy(c, side, longer) == c * longer <= side * 800 /\ side * 800 < (c + 2) * longer

\* C22: after setupCanvas, before any sampling takes place, the longer side
\* of the working canvas is at most 800 px; an image whose sides are both at
\* most 800 px is not scaled, and a larger image is scaled by the same factor
\* 800 / max(width, height) in both dimensions.
C22_CanvasCapped ==
    (analyzer \in {"AI", "Advanced"} /\ image.decodable /\ pc # "loadImage") =>
        LET longer == Max2(image.width, image.height)
        IN  /\ Max2(canvas.width, canvas.height) <= 800
            /\ longer <= 800 => (canvas.width = image.width /\ canvas.height = image.height)
            /\ longer > 800 => /\ ScaledBy(canvas.width, image.width, longer)
                               /\ ScaledBy(canvas.height, image.height, longer)

\* ------------------------------------------------------------------------
\* C23: getLuminance
\* ------------------------------------------------------------------------

\* the luminance of hex is that of the claim: 0 for black, 1 for white and a
\* number from 0 to 1 for every colour
LuminanceAsClaimed(hex) ==
    LET lum == getLuminanceFromHex(hex)
    IN  /\ lum >= 0
        /\ lum <= LumScale
        /\ SameColour(hex, Black) => lum = 0
        /\ SameColour(hex, White) => lum = LumScale

\* C23: getLuminance returns 0 for pure black and 1 for pure white, and for
\* every colour a number within [0,1]; the contrast ratio that
\* calculateContrastRatio computes from the luminances of white and black is
\* therefore (1 + 0.05) / (0 + 0.05) = 21.
C23_LuminanceRange ==
    cpc = "contrast" =>
        /\ LuminanceAsClaimed(hexA)
        /\ LuminanceAsClaimed(hexB)
        /\ (SameColour(hexA, White) /\ SameColour(hexB, Black)) => ratio.num = 21 * ratio.den

\* C23 witness: calculateContrastRatio has been applied to white and black.
C23_Witness ==
    /\ cpc = "contrast"
    /\ SameColour(hexA, White)
    /\ SameColour(hexB, Black)

\* ------------------------------------------------------------------------
\* C24: growTextRegion
\* ------------------------------------------------------------------------

\* the regions that growTextRegion has returned and the one it is growing
AllGrown == Append(rgrown, rregion)

\* index is the data index of a pixel inside the image
InBoundsIndex(img, index) ==
    /\ index % 4 = 0
    /\ (index \div 4) % img.width \in 0..(img.width - 1)
    /\ (index \div 4) \div img.width \in 0..(img.height - 1)

\* no pixel index is in two regions, and every index is that of a pixel
\* inside the image
RegionsDisjointInBounds ==
    /\ \A i \in 1..Len(AllGrown) : \A j \in 1..Len(AllGrown) :
          i # j => AllGrown[i] \cap AllGrown[j] = {}
    /\ \A i \in 1..Len(AllGrown) : \A index \in AllGrown[i] : InBoundsIndex(rimg, index)
    /\ \A i \in 1..Len(rregions) : \E j \in 1..Len(rgrown) : rregions[i] = rgrown[j]

\* C24: every call of growTextRegion terminates, and so does the run of
\* detectTextRegions; across the run every pixel index is added to at most
\* one region: the regions are pairwise disjoint and contain only indices of
\* pixels inside the image.
C24_RegionsDisjoint ==
    /\ [](rpc # "idle" => RegionsDisjointInBounds)
    /\ (rpc = "grow") ~> (rpc = "seed")
    /\ (rpc = "seed") ~> (rpc = "done")

\* C24 witness: detectTextRegions has returned after growTextRegion has grown
\* a region of several pixels.
C24_Witness ==
    /\ rpc = "done"
    /\ Len(rgrown) > 0
    /\ \E i \in 1..Len(rgrown) : Cardinality(rgrown[i]) > 10
    /\ Len(rregions) > 0

\* ------------------------------------------------------------------------
\* C25: the edge detector
\* ------------------------------------------------------------------------

\* isPixelEdge is false at every pixel of the image for the thresholds of
\* detectTextRegions (50) and of detectAlignmentLines (30)
NoPixelIsEdge(img) ==
    \A x \in 0..(img.width - 1) : \A y \in 0..(img.height - 1) :
        ~isPixelEdge(img, x, y, 50) /\ ~isPixelEdge(img, x, y, 30)

\* C25: isPixelEdge returns false for every pixel of every image;
\* consequently detectTextRegions returns no regions (the canvas text
\* detection always answers with its text for no regions) and
\* analyzeGridAlignment returns exactly 50.
C25_EdgeDetectorNeverFires ==
    (analyzer = "Advanced" /\ image.decodable) =>
        /\ pc = "analyzeText" => NoPixelIsEdge(image)
        /\ CanvasTextDone => textAnalysis.extractedText = NoRegionsText
        /\ layoutAnalysis # NoLayout => layoutAnalysis.gridQuality = 50

\* C25 witness: the text and the layout of an image with a black and white
\* boundary have been analysed on the canvas.
C25_Witness ==
    /\ analyzer = "Advanced"
    /\ image = ImageFile(100, 100, PxBlack, PxWhite)
    /\ CanvasTextDone
    /\ layoutAnalysis # NoLayout

\* ------------------------------------------------------------------------
\* C26: the frequency table and the top colours
\* ------------------------------------------------------------------------

\* the samples as quantizeToWebColors maps them
QuantizedSamples(samples) == [i \in 1..Len(samples) |-> quantizeToWebColors(samples[i])]

\* the number of entries of the sequence that equal c
TallyOf(seq, c) == Cardinality({i \in 1..Len(seq) : seq[i] = c})

\* the table holds one entry per quantized colour with its number of
\* samples, and the counts add up to the number of samples
ExactTally(quantizedSamples, groups) ==
    /\ Distinct([g \in 1..Len(groups) |-> groups[g].color])
    /\ \A i \in 1..Len(quantizedSamples) :
          \E g \in 1..Len(groups) : groups[g].color = quantizedSamples[i]
    /\ \A g \in 1..Len(groups) : groups[g].count = TallyOf(quantizedSamples, groups[g].color)
    /\ SumSeq([g \in 1..Len(groups) |-> groups[g].count]) = Len(quantizedSamples)

\* at most 10 distinct colours of the table in non-increasing order of
\* count, none of the colours left out having a strictly higher count
MostFrequentTen(quantizedSamples, groups, top) ==
    /\ Len(top) <= 10
    /\ Distinct(top)
    /\ \A i \in 1..Len(top) : \E g \in 1..Len(groups) : groups[g].color = top[i]
    /\ \A i \in 1..(Len(top) - 1) :
          TallyOf(quantizedSamples, top[i]) >= TallyOf(quantizedSamples, top[i + 1])
    /\ \A g \in 1..Len(groups) :
          ~Contains(top, groups[g].color) =>
              /\ Len(top) = 10
              /\ \A i \in 1..Len(top) :
                    TallyOf(quantizedSamples, top[i]) >= TallyOf(quantizedSamples, groups[g].color)

\* C26: the frequency table of calculateAdvancedDominantColors is an exact
\* tally of the quantized samples, its counts summing to the number of
\* samples, and topColors holds at most 10 pairwise distinct colours in
\* non-increasing order of count, no colour left out having a strictly
\* higher count than one included.
C26_ExactTallyTopTen ==
    (analyzer = "AI" /\ DominantsAssigned) =>
        /\ ExactTally(QuantizedSamples(colors), ColorGroups(colors))
        /\ MostFrequentTen(QuantizedSamples(colors), ColorGroups(colors), TopColors(colors))

\* C26 witness: more than ten colours were tallied, one of them twice, and
\* the colour tallied twice is the first of the top colours.
C26_Witness ==
    /\ analyzer = "AI" /\ DominantsAssigned
    /\ Len(ColorGroups(colors)) > 10
    /\ TallyOf(QuantizedSamples(colors), TopColors(colors)[1]) = 2
    /\ ColorGroups(colors)[1].color # TopColors(colors)[1]

\* ------------------------------------------------------------------------
\* C27: the feedback lists
\* ------------------------------------------------------------------------

\* C27: generateAdvancedHumanFeedback returns exactly 3 strengths and
\* exactly 4 suggestions, the entries of each list pairwise distinct, for
\* every input and every outcome of the random choices, also after the
\* random fill-up.
C27_ThreeStrengthsFourSuggestions ==
    fbpc = "returned" =>
        /\ Len(uniqueStrengths) = 3
        /\ Len(uniqueSuggestions) = 4
        /\ Distinct(uniqueStrengths)
        /\ Distinct(uniqueSuggestions)

\* C27 witness: the function has returned after the fill-up pushed a random
\* suggestion as the fourth.
C27_Witness ==
    /\ fbpc = "returned"
    /\ Len(uniqueSuggestions) = 4
    /\ Contains(randomSuggestions, uniqueSuggestions[4])

\* ------------------------------------------------------------------------
\* C28, C29: Upload.handleAnalyze
\* ------------------------------------------------------------------------

\* the key that the record of the design id is written under
DesignKey(id) == "design:" \o ToString(id)

\* the run of handleAnalyze has ended: the function returned or the catch
\* block ran
RunEnded == upc \in {"done", "failed"}

\* the steps before the write
StepsBeforeWrite == {"upload", "completion", "parsed", "validated"}

\* (a): the record of the run was written with one call of kv.set after the
\* upload, the AI response, the parsing and the validation, and the
\* navigation to /design/<id> is scheduled or has happened
EndedSaved ==
    /\ upc = "done"
    /\ Cardinality({i \in 1..Len(kvCalls) : kvCalls[i] = DesignKey(designId)}) = 1
    /\ Cardinality({e \in kvStore : e.key = DesignKey(designId)}) = 1
    /\ StepsBeforeWrite \subseteq passed
    /\ \/ timer = designId /\ route = ""
       \/ timer = 0 /\ route = "/design/" \o ToString(designId)

\* (b): nothing is written or navigated to, the status text is the error
\* text and isProcessing is false
EndedFailed ==
    /\ upc = "failed"
    /\ kvStore = {}
    /\ timer = 0 /\ route = ""
    /\ \E message \in ErrorMessages : statusText = "Error: Analysis failed - " \o message
    /\ isProcessing = FALSE

\* kv.set is called after the four steps, and the navigation is scheduled
\* with the record written
WriteThenNavigate ==
    /\ (upc = "kvSet" \/ kvPending # NoCall) => StepsBeforeWrite \subseteq passed
    /\ (timer # 0 \/ route # "") =>
          /\ upc = "done"
          /\ \E e \in kvStore : e.key = DesignKey(designId)

\* C28: every run of handleAnalyze ends, and in exactly one of two states:
\* (a) the design record written once with kv.set, after the upload
\* succeeded and the AI response was ok, parsed and validated, with the
\* navigation to /design/<id> scheduled only after the write resolved, or
\* (b) a step failed, nothing written or navigated to, the status text
\* starting with 'Error: Analysis failed - ' and isProcessing false.
C28_RunEndsSavedOrFailed ==
    /\ [](RunEnded => (EndedSaved /\ ~EndedFailed) \/ (EndedFailed /\ ~EndedSaved))
    /\ []WriteThenNavigate
    /\ ((upc \notin {"form", "done", "failed"}) ~> RunEnded)

\* C28 witness: the second run, after a failed one, has saved the record and
\* the navigation has happened.
C28_Witness ==
    /\ runs = 2
    /\ EndedSaved
    /\ route = "/design/2"

\* one of the four required fields is not in the parsed response
SomeFieldAbsent(parsed) ==
    \/ parsed.overallScore = Undefined
    \/ parsed.strengths = Undefined
    \/ parsed.improvementSuggestions = Undefined
    \/ parsed.detailedAnalysis = Undefined

\* C29: a parsed AI response is accepted and passed to kv.set if it holds
\* strengths, improvementSuggestions, detailedAnalysis and an overallScore in
\* 0..100, 0 included, and it is rejected with 'AI response missing required
\* fields' only if one of the four fields is absent.
C29_RejectsOnlyAbsentFields ==
    "parsed" \in passed =>
        /\ ~SomeFieldAbsent(parsedFeedback) =>
              /\ "validated" \in passed
              /\ kvCalls # <<>>
              /\ kvCalls[Len(kvCalls)] = DesignKey(designId)
        /\ statusText = "Error: Analysis failed - AI response missing required fields" =>
              SomeFieldAbsent(parsedFeedback)

=============================================================================
